---- MODULE Spec2Model ----
(***************************************************************************)
(* Model of the pingora-manager proxy core: the access-control evaluator,  *)
(* the router, the request dispatcher (ProxyApp::resolve_request), the     *)
(* request lifecycle against the ArcSwap-published SharedState, the SIGHUP *)
(* reload thread and the static-file server with its two caches.           *)
(*                                                                         *)
(* Rust Strings are TLA+ strings (Len, SubSeq and \o work on them);        *)
(* Option<T> is a sequence of length 0 (None) or 1 (Some).                 *)
(***************************************************************************)
EXTENDS Integers, Sequences, FiniteSets, TLC

VARIABLES
    chk_in,          \* access evaluator: the arguments of check_access
    chk_out,         \* access evaluator: its result, None before the call
    d_cfg,           \* dispatcher: index of the configuration of the snapshot
    d_req,           \* dispatcher: the request handed to resolve_request
    d_out,           \* dispatcher: what resolve_request returned, None before
    disk,            \* the configs directory: 0 when its YAML does not parse,
                     \* else the index of the configuration it holds
    published,       \* the ArcSwap: [cfg, gen] of the published snapshot
    listeners,       \* the ports main() bound at startup
    sighup,          \* SIGHUP_RECEIVED
    sent,            \* number of SIGHUPs delivered so far
    reload_pc,       \* reload thread: "sleep" or "load"
    reload_log,      \* what the reload thread logged, oldest first
    r_pc,            \* request: "idle", "ctx", "upstream" or "responded"
    r_req,           \* request: its Host, path, port, client IP, Authorization
    ctx,             \* request: its ProxyCtx, with the snapshot new_ctx loaded
    r_act,           \* request: the action, the snapshot that computed it
                     \* and whether the file the action names was served
    r_resp,          \* request: the response written downstream
    log_sink,        \* the file paths of the log entries of the last request
    served,          \* number of requests completed
    fs_link,         \* filesystem: what the symlink /www points to
    fs_files,        \* filesystem: body and mtime of every regular file
    now,             \* the clock, in seconds
    base_dir_cache,  \* BASE_DIR_CACHE: base_dir string -> canonical path
    file_cache,      \* FILE_CACHE: canonical path -> CachedFile
    st_out,          \* the last serve_static_file call: arguments and result
    rt_hosts,        \* router: the host list Router::build was given
    rt_req,          \* router: the Host header and the path to resolve
    rt_out,          \* router: what Router::resolve returned, None before
    fn_in,           \* a pure function on its own: its arguments
    fn_out,          \* a pure function on its own: its result, None before
    fc_keys,         \* FILE_CACHE under load: the keys followed by name
    fc_others,       \* FILE_CACHE under load: how many further entries
    fc_task,         \* FILE_CACHE under load: each serving task's position
    fc_calls,        \* FILE_CACHE under load: calls started so far
    fc_picks,        \* FILE_CACHE under load: victims named so far
    lq_queue,        \* log channel: the file paths of the entries in flight
    lq_closed,       \* log channel: every sender was dropped
    lw_pc,           \* log writer: "running" or "terminated"
    lw_writers,      \* log writer: the paths with an open BufWriter
    lw_dirty,        \* log writer: the writers that hold unflushed lines
    lw_count,        \* log writer: its count variable
    lw_unflushed,    \* log writer: lines written and not flushed yet
    lw_failed_opens, \* log writer: failed opens of a path (2: two or more)
    sp_pc,           \* stream proxy: where run_stream_proxy is
    sp_config,       \* stream proxy: its StreamPortConfig
    sp_index,        \* stream proxy: upstream_index
    sp_conns,        \* stream proxy: the accepted connections, oldest first
    tp_peer,         \* forwarded connection: each peer, what it still sends
    tp_sent,         \* forwarded connection: the bytes each peer has sent
    tp_dir,          \* forwarded connection: each copy loop of proxy_tcp_stream
    tp_shut,         \* forwarded connection: sockets whose write half is shut
    tp_state,        \* forwarded connection: "running" or "terminated"
    ih_log,          \* dispatches under one snapshot: request and action
    proc,            \* the process: "running" or "killed"
    boot,            \* what main() bound at startup, and from which config
    stream_tasks     \* the stream proxies main() started: config and index

accVars == <<chk_in, chk_out>>
dispVars == <<d_cfg, d_req, d_out>>
reloadVars == <<disk, published, listeners, sighup, sent, reload_pc, reload_log>>
reqVars == <<r_pc, r_req, ctx, r_act, r_resp, log_sink, served>>
staticVars == <<fs_link, fs_files, now, base_dir_cache, file_cache, st_out>>
routerVars == <<rt_hosts, rt_req, rt_out>>
fnVars == <<fn_in, fn_out>>
cacheVars == <<fc_keys, fc_others, fc_task, fc_calls, fc_picks>>
coreVars == <<accVars, dispVars, reloadVars, reqVars, staticVars, routerVars, fnVars>>
logVars == <<lq_queue, lq_closed, lw_pc, lw_writers, lw_dirty, lw_count, lw_unflushed,
            lw_failed_opens>>
streamVars == <<sp_pc, sp_config, sp_index, sp_conns>>
tcpVars == <<tp_peer, tp_sent, tp_dir, tp_shut, tp_state>>
hashVars == <<ih_log>>
bootVars == <<proc, boot, stream_tasks>>
laterVars == <<cacheVars, logVars, streamVars, tcpVars, hashVars, bootVars>>
vars == <<coreVars, laterVars>>

(***************************************************************************)
(* Option and string helpers                                               *)
(***************************************************************************)
None == <<>>
Some(v) == <<v>>
IsSome(o) == o # <<>>
Unwrap(o) == o[1]

Char(s, i) == SubSeq(s, i, i)

\* str::starts_with
starts_with(s, p) == Len(p) <= Len(s) /\ SubSeq(s, 1, Len(p)) = p

\* str::strip_prefix: Some(rest) when s starts with p, None otherwise
strip_prefix(s, p) ==
    IF starts_with(s, p) THEN Some(SubSeq(s, Len(p) + 1, Len(s))) ELSE None

\* position of the first occurrence of the one-character string c, 0 if none
RECURSIVE FindFrom(_, _, _)
FindFrom(s, c, i) ==
    IF i > Len(s) THEN 0
    ELSE IF Char(s, i) = c THEN i
    ELSE FindFrom(s, c, i + 1)

Find(s, c) == FindFrom(s, c, 1)

\* printable ASCII used to turn characters into bytes: code points 32..95
\* and 97..126 (a string literal cannot hold the grave accent, 96)
AsciiLo == " !\"#$%&'()*+,-./0123456789:;<=>?@ABCDEFGHIJKLMNOPQRSTUVWXYZ[\\]^_"
AsciiHi == "abcdefghijklmnopqrstuvwxyz{|}~"

Ord(c) ==
    IF Find(AsciiLo, c) > 0 THEN 31 + Find(AsciiLo, c) ELSE 96 + Find(AsciiHi, c)

\* String::as_bytes for a printable ASCII string
Bytes(s) == [i \in 1..Len(s) |-> Ord(Char(s, i))]

Pow2(n) == 2 ^ n

Min(a, b) == IF a < b THEN a ELSE b
Max(a, b) == IF a > b THEN a ELSE b

(***************************************************************************)
(* access_control.rs                                                       *)
(***************************************************************************)

\* An IpAddr is [v |-> 4, o |-> 4 octets] or [v |-> 6, o |-> 16 octets].
FamilyWidth(ip) == IF ip.v = 4 THEN 32 ELSE 128

\* (x & mask) for mask = MAX << (width - p): octet i keeps its top
\* min(8, max(0, p - 8(i-1))) bits
MaskTop(o, p) ==
    [i \in 1..Len(o) |->
        LET k == Min(8, Max(0, p - 8 * (i - 1)))
        IN  o[i] - (o[i] % Pow2(8 - k))]

\* variant whose mask is one bit short (a mutant)
cidr_match_short_mask(client, network, prefix_len) ==
    IF client.v # network.v THEN FALSE
    ELSE IF prefix_len > FamilyWidth(client) THEN FALSE
    ELSE IF prefix_len = 0 THEN TRUE
    ELSE MaskTop(client.o, prefix_len - 1) = MaskTop(network.o, prefix_len - 1)

\* the shared body of ip_matches_parsed and of the CIDR arm of ip_matches_cidr
cidr_match(client, network, prefix_len) ==
    IF client.v # network.v THEN FALSE
    ELSE IF prefix_len > FamilyWidth(client) THEN FALSE
    ELSE IF prefix_len = 0 THEN TRUE
    ELSE MaskTop(client.o, prefix_len) = MaskTop(network.o, prefix_len)

\* parsed is a ParsedCidr [ip, prefix_len]
ip_matches_parsed(client_ip, parsed) ==
    cidr_match(client_ip, parsed.ip, parsed.prefix_len)

\* The address string of a rule is kept split the way the function splits
\* it: kind "all" (the keyword), "cidr" (text with a '/': net and plen are
\* the results of parsing the two sides, None when the parse fails) or
\* "single" (no '/': net is the result of parsing the whole text).
ip_matches_cidr(ip, cidr) ==
    IF cidr.kind = "all" THEN TRUE
    ELSE IF cidr.kind = "cidr" THEN
        IF ~IsSome(cidr.net) THEN FALSE
        ELSE IF ~IsSome(cidr.plen) THEN FALSE
        ELSE cidr_match(ip, Unwrap(cidr.net), Unwrap(cidr.plen))
    ELSE
        IF IsSome(cidr.net) THEN ip = Unwrap(cidr.net) ELSE FALSE

rule_matches(ip, client) ==
    IF IsSome(client.parsed_cidr)
    THEN ip_matches_parsed(ip, Unwrap(client.parsed_cidr))
    ELSE ip_matches_cidr(ip, client.address)

\* the loop of check_ip_access over clients[i..], carrying `result`
RECURSIVE ip_rules_from(_, _, _, _)
ip_rules_from(clients, ip, i, result) ==
    IF i > Len(clients) THEN result
    ELSE ip_rules_from(clients, ip, i + 1,
            IF rule_matches(ip, clients[i])
            THEN clients[i].directive = "allow"
            ELSE result)

\* first-match-wins variant of the rule loop (a mutant of check_ip_access)
RECURSIVE ip_rules_first(_, _, _)
ip_rules_first(clients, ip, i) ==
    IF i > Len(clients) THEN FALSE
    ELSE IF rule_matches(ip, clients[i]) THEN clients[i].directive = "allow"
    ELSE ip_rules_first(clients, ip, i + 1)

check_ip_access_first_match(access_list, client_ip) ==
    IF access_list.clients = <<>> THEN TRUE
    ELSE IF ~IsSome(client_ip) THEN FALSE
    ELSE ip_rules_first(access_list.clients, Unwrap(client_ip), 1)

check_ip_access(access_list, client_ip) ==
    IF access_list.clients = <<>> THEN TRUE
    ELSE IF ~IsSome(client_ip) THEN FALSE
    ELSE ip_rules_from(access_list.clients, Unwrap(client_ip), 1, FALSE)

\* base64 STANDARD alphabet; the value of a character is its position - 1
B64Alphabet == "ABCDEFGHIJKLMNOPQRSTUVWXYZabcdefghijklmnopqrstuvwxyz0123456789+/"

B64Val(c) == Find(B64Alphabet, c) - 1

IsB64(c) == Find(B64Alphabet, c) > 0

\* one group of four characters -> its bytes, or "err"
B64Quad(q, last) ==
    LET c1 == Char(q, 1)  c2 == Char(q, 2)  c3 == Char(q, 3)  c4 == Char(q, 4)
        v1 == B64Val(c1)  v2 == B64Val(c2)  v3 == B64Val(c3)  v4 == B64Val(c4)
    IN  IF ~IsB64(c1) \/ ~IsB64(c2) THEN [ok |-> FALSE, bytes |-> <<>>]
        ELSE IF last /\ c3 = "=" /\ c4 = "=" THEN
            IF v2 % 16 # 0 THEN [ok |-> FALSE, bytes |-> <<>>]
            ELSE [ok |-> TRUE, bytes |-> <<v1 * 4 + v2 \div 16>>]
        ELSE IF ~IsB64(c3) THEN [ok |-> FALSE, bytes |-> <<>>]
        ELSE IF last /\ c4 = "=" THEN
            IF v3 % 4 # 0 THEN [ok |-> FALSE, bytes |-> <<>>]
            ELSE [ok |-> TRUE,
                  bytes |-> <<v1 * 4 + v2 \div 16, (v2 % 16) * 16 + v3 \div 4>>]
        ELSE IF ~IsB64(c4) THEN [ok |-> FALSE, bytes |-> <<>>]
        ELSE [ok |-> TRUE,
              bytes |-> <<v1 * 4 + v2 \div 16, (v2 % 16) * 16 + v3 \div 4,
                          (v3 % 4) * 64 + v4>>]

RECURSIVE B64From(_, _)
B64From(s, i) ==
    IF i > Len(s) THEN [ok |-> TRUE, bytes |-> <<>>]
    ELSE LET q == B64Quad(SubSeq(s, i, i + 3), i + 3 = Len(s))
             r == B64From(s, i + 4)
         IN  IF q.ok /\ r.ok THEN [ok |-> TRUE, bytes |-> q.bytes \o r.bytes]
             ELSE [ok |-> FALSE, bytes |-> <<>>]

\* base64::Engine::decode with the STANDARD engine (canonical padding)
base64_decode(s) ==
    IF Len(s) % 4 # 0 THEN [ok |-> FALSE, bytes |-> <<>>] ELSE B64From(s, 1)

IsCont(b) == b >= 128 /\ b <= 191

\* String::from_utf8: TRUE iff the bytes from position i on are valid UTF-8
RECURSIVE Utf8From(_, _)
Utf8From(b, i) ==
    IF i > Len(b) THEN TRUE
    ELSE LET x == b[i]
             has(n) == i + n <= Len(b)
         IN  IF x < 128 THEN Utf8From(b, i + 1)
             ELSE IF x >= 194 /\ x <= 223 THEN
                 has(1) /\ IsCont(b[i + 1]) /\ Utf8From(b, i + 2)
             ELSE IF x >= 224 /\ x <= 239 THEN
                 /\ has(2)
                 /\ IsCont(b[i + 1]) /\ IsCont(b[i + 2])
                 /\ (x = 224 => b[i + 1] >= 160)
                 /\ (x = 237 => b[i + 1] <= 159)
                 /\ Utf8From(b, i + 3)
             ELSE IF x >= 240 /\ x <= 244 THEN
                 /\ has(3)
                 /\ IsCont(b[i + 1]) /\ IsCont(b[i + 2]) /\ IsCont(b[i + 3])
                 /\ (x = 240 => b[i + 1] >= 144)
                 /\ (x = 244 => b[i + 1] <= 143)
                 /\ Utf8From(b, i + 4)
             ELSE FALSE

from_utf8_ok(b) == Utf8From(b, 1)

\* position of the first ':' (byte 58) in a byte sequence, 0 if none
RECURSIVE ColonFrom(_, _)
ColonFrom(b, i) ==
    IF i > Len(b) THEN 0 ELSE IF b[i] = 58 THEN i ELSE ColonFrom(b, i + 1)

\* variant that splits the credentials at their last ':' (a mutant)
check_auth_access_last_colon(access_list, auth_header) ==
    IF access_list.auth = <<>> THEN TRUE
    ELSE IF ~IsSome(auth_header) THEN FALSE
    ELSE LET encoded == strip_prefix(Unwrap(auth_header), "Basic ")
         IN  IF ~IsSome(encoded) THEN FALSE
             ELSE LET decoded == base64_decode(Unwrap(encoded))
                      b == decoded.bytes
                      colons == { i \in 1..Len(b) : b[i] = 58 }
                      c == CHOOSE i \in colons : \A j \in colons : j <= i
                  IN  IF ~decoded.ok THEN FALSE
                      ELSE IF ~from_utf8_ok(b) THEN FALSE
                      ELSE IF colons = {} THEN FALSE
                      ELSE \E i \in 1..Len(access_list.auth) :
                             /\ Bytes(access_list.auth[i].username) = SubSeq(b, 1, c - 1)
                             /\ Bytes(access_list.auth[i].password) = SubSeq(b, c + 1, Len(b))

check_auth_access(access_list, auth_header) ==
    IF access_list.auth = <<>> THEN TRUE
    ELSE IF ~IsSome(auth_header) THEN FALSE
    ELSE LET encoded == strip_prefix(Unwrap(auth_header), "Basic ")
         IN  IF ~IsSome(encoded) THEN FALSE
             ELSE LET decoded == base64_decode(Unwrap(encoded))
                  IN  IF ~decoded.ok THEN FALSE
                      ELSE IF ~from_utf8_ok(decoded.bytes) THEN FALSE
                      ELSE LET c == ColonFrom(decoded.bytes, 1)
                               username == SubSeq(decoded.bytes, 1, c - 1)
                               password == SubSeq(decoded.bytes, c + 1,
                                                  Len(decoded.bytes))
                           IN  IF c = 0 THEN FALSE
                               ELSE \E i \in 1..Len(access_list.auth) :
                                      /\ Bytes(access_list.auth[i].username) = username
                                      /\ Bytes(access_list.auth[i].password) = password

\* variant that asks for credentials before looking at the address in
\* satisfy = all (a mutant of check_access)
check_access_auth_first(access_list, client_ip, auth_header) ==
    LET ip_ok == check_ip_access(access_list, client_ip)
        auth_ok == check_auth_access(access_list, auth_header)
    IN  IF access_list.satisfy = "all" THEN
            IF access_list.auth # <<>> /\ ~auth_ok THEN "AuthRequired"
            ELSE IF ~ip_ok THEN "Denied"
            ELSE "Allowed"
        ELSE
            IF access_list.clients = <<>> /\ access_list.auth = <<>> THEN "Allowed"
            ELSE IF ip_ok /\ access_list.clients # <<>> THEN "Allowed"
            ELSE IF auth_ok /\ access_list.auth # <<>> THEN "Allowed"
            ELSE IF access_list.auth # <<>> THEN "AuthRequired"
            ELSE "Denied"

check_access(access_list, client_ip, auth_header) ==
    LET ip_ok == check_ip_access(access_list, client_ip)
        auth_ok == check_auth_access(access_list, auth_header)
    IN  IF access_list.satisfy = "all" THEN
            IF ~ip_ok THEN "Denied"
            ELSE IF access_list.auth # <<>> /\ ~auth_ok THEN "AuthRequired"
            ELSE "Allowed"
        ELSE
            IF access_list.clients = <<>> /\ access_list.auth = <<>> THEN "Allowed"
            ELSE IF ip_ok /\ access_list.clients # <<>> THEN "Allowed"
            ELSE IF auth_ok /\ access_list.auth # <<>> THEN "Allowed"
            ELSE IF access_list.auth # <<>> THEN "AuthRequired"
            ELSE "Denied"

(***************************************************************************)
(* router.rs                                                               *)
(***************************************************************************)
UpperCase == "ABCDEFGHIJKLMNOPQRSTUVWXYZ"
LowerCase == "abcdefghijklmnopqrstuvwxyz"

lower_char(c) ==
    LET i == Find(UpperCase, c) IN IF i > 0 THEN Char(LowerCase, i) ELSE c

\* str::to_lowercase / to_ascii_lowercase on ASCII text
RECURSIVE to_lowercase(_)
to_lowercase(s) ==
    IF s = "" THEN "" ELSE lower_char(Head(s)) \o to_lowercase(Tail(s))

\* HashMap as a function; insert overwrites an existing key
EmptyMap == <<>>
MapPut(m, k, v) == [x \in (DOMAIN m) \cup {k} |-> IF x = k THEN v ELSE m[x]]
MapGet(m, k) == IF k \in DOMAIN m THEN Some(m[k]) ELSE None

Contains(s, sub) ==
    \E i \in 1..(Len(s) + 1) :
        i + Len(sub) - 1 <= Len(s) /\ SubSeq(s, i, i + Len(sub) - 1) = sub

ends_with(s, p) ==
    Len(p) <= Len(s) /\ SubSeq(s, Len(s) - Len(p) + 1, Len(s)) = p

\* The regex crate on the patterns the configurations use: literal text,
\* optionally anchored by a leading ^ and a trailing $; a pattern holding an
\* unclosed "(" does not compile.
regex_new_ok(pattern) == ~Contains(pattern, "(")

regex_is_match(pattern, path) ==
    LET from_start == starts_with(pattern, "^")
        p1 == IF from_start THEN SubSeq(pattern, 2, Len(pattern)) ELSE pattern
        to_end == ends_with(p1, "$")
        body == IF to_end THEN SubSeq(p1, 1, Len(p1) - 1) ELSE p1
    IN  IF from_start /\ to_end THEN path = body
        ELSE IF from_start THEN starts_with(path, body)
        ELSE IF to_end THEN ends_with(path, body)
        ELSE Contains(path, body)

\* variant whose index counts the compiled entries, so that a dropped regex
\* shifts the indexes after it (a mutant)
RECURSIVE compile_dense_from(_, _, _)
compile_dense_from(locations, i, n) ==
    IF i > Len(locations) THEN <<>>
    ELSE LET loc == locations[i]
         IN  IF loc.match_type = "exact"
             THEN <<[index |-> n, kind |-> "Exact", pat |-> loc.path]>>
                  \o compile_dense_from(locations, i + 1, n + 1)
             ELSE IF loc.match_type = "regex"
             THEN IF regex_new_ok(loc.path)
                  THEN <<[index |-> n, kind |-> "Regex", pat |-> loc.path]>>
                       \o compile_dense_from(locations, i + 1, n + 1)
                  ELSE compile_dense_from(locations, i + 1, n)
             ELSE <<[index |-> n, kind |-> "Prefix", pat |-> loc.path]>>
                  \o compile_dense_from(locations, i + 1, n + 1)

compile_locations_dense(locations, i) == compile_dense_from(locations, i, i - 1)

\* the compile loop of Router::build over locations[i..]; index is the
\* 0-based position in the host's configured list
RECURSIVE compile_locations(_, _)
compile_locations(locations, i) ==
    IF i > Len(locations) THEN <<>>
    ELSE LET loc == locations[i]
             rest == compile_locations(locations, i + 1)
         IN  IF loc.match_type = "exact"
             THEN <<[index |-> i - 1, kind |-> "Exact", pat |-> loc.path]>> \o rest
             ELSE IF loc.match_type = "regex"
             THEN IF regex_new_ok(loc.path)
                  THEN <<[index |-> i - 1, kind |-> "Regex", pat |-> loc.path]>> \o rest
                  ELSE rest
             ELSE <<[index |-> i - 1, kind |-> "Prefix", pat |-> loc.path]>> \o rest

RECURSIVE insert_domains(_, _, _)
insert_domains(host_map, host, i) ==
    IF i > Len(host.domains) THEN host_map
    ELSE insert_domains(MapPut(host_map, to_lowercase(host.domains[i]), host),
                        host, i + 1)

\* variant that also enters the hosts with enabled = false (a mutant)
RECURSIVE router_build_from_all(_, _, _)
router_build_from_all(hosts, i, r) ==
    IF i > Len(hosts) THEN r
    ELSE router_build_from_all(hosts, i + 1,
            [hosts |-> insert_domains(r.hosts, hosts[i], 1),
             locations |-> MapPut(r.locations, hosts[i].id,
                                  compile_locations(hosts[i].locations, 1))])

RECURSIVE router_build_from(_, _, _)
router_build_from(hosts, i, r) ==
    IF i > Len(hosts) THEN r
    ELSE IF ~hosts[i].enabled THEN router_build_from(hosts, i + 1, r)
    ELSE router_build_from(hosts, i + 1,
            [hosts |-> insert_domains(r.hosts, hosts[i], 1),
             locations |-> MapPut(r.locations, hosts[i].id,
                                  compile_locations(hosts[i].locations, 1))])

Router_build(hosts) ==
    router_build_from(hosts, 1, [hosts |-> EmptyMap, locations |-> EmptyMap])

\* variant that keeps the case of the Host header (a mutant)
normalize_host_keep_case(host) ==
    LET c == Find(host, ":")
    IN  IF c = 0 THEN host ELSE SubSeq(host, 1, c - 1)

\* Router::normalize_host: the text before the first ':', lowercased
normalize_host(host) ==
    LET c == Find(host, ":")
        h == IF c = 0 THEN host ELSE SubSeq(host, 1, c - 1)
    IN  to_lowercase(h)

location_matches(cl, path) ==
    IF cl.kind = "Exact" THEN path = cl.pat
    ELSE IF cl.kind = "Prefix" THEN starts_with(path, cl.pat)
    ELSE regex_is_match(cl.pat, path)

\* the loop of Router::match_location: the index of the first compiled
\* location that matches, None when there is none
RECURSIVE first_match(_, _, _)
first_match(compiled, path, k) ==
    IF k > Len(compiled) THEN None
    ELSE IF location_matches(compiled[k], path) THEN Some(compiled[k].index)
    ELSE first_match(compiled, path, k + 1)

\* Router::match_location: Some(index) of the matched location of
\* host_config.locations (locations.get(index) may itself be None)
match_location(router, host_config, path) ==
    LET compiled == MapGet(router.locations, host_config.id)
    IN  IF ~IsSome(compiled) THEN None
        ELSE LET idx == first_match(Unwrap(compiled), path, 1)
             IN  IF IsSome(idx) /\ Unwrap(idx) < Len(host_config.locations)
                 THEN idx ELSE None

\* Router::resolve: None, or Some of the host, the matched location and its
\* index in the host's list
Router_resolve(router, host, path) ==
    LET host_config == MapGet(router.hosts, normalize_host(host))
    IN  IF ~IsSome(host_config) THEN None
        ELSE LET h == Unwrap(host_config)
                 idx == match_location(router, h, path)
             IN  Some([host |-> h,
                       location |-> IF IsSome(idx)
                                    THEN Some(h.locations[Unwrap(idx) + 1])
                                    ELSE None,
                       loc_idx |-> idx])

(***************************************************************************)
(* upstream.rs                                                             *)
(***************************************************************************)

\* ToSocketAddrs at build time: an IP literal resolves to itself, the name
\* "backend.local" to 10.0.0.9, and "nohost.invalid" does not resolve
resolve_server(server) ==
    IF server = "nohost.invalid" THEN None
    ELSE IF server = "backend.local" THEN Some("10.0.0.9")
    ELSE Some(server)

\* format!("{}:{}", server, port).to_socket_addrs().next().to_string()
to_socket_addr(upstream) ==
    LET ip == resolve_server(upstream.server)
    IN  IF IsSome(ip) THEN Some(Unwrap(ip) \o ":" \o ToString(upstream.port))
        ELSE None

SeqContains(q, x) == \E i \in 1..Len(q) : q[i] = x

\* the loop of create_lb_from_upstreams: the distinct backends
\* [addr, weight] of upstreams[i..], unresolvable entries skipped
RECURSIVE backends_from(_, _, _)
backends_from(upstreams, i, acc) ==
    IF i > Len(upstreams) THEN acc
    ELSE LET a == to_socket_addr(upstreams[i])
             b == [addr |-> Unwrap(a), weight |-> upstreams[i].weight]
         IN  IF ~IsSome(a) \/ SeqContains(acc, b)
             THEN backends_from(upstreams, i + 1, acc)
             ELSE backends_from(upstreams, i + 1, Append(acc, b))

create_lb_from_upstreams(upstreams) ==
    LET backend_set == backends_from(upstreams, 1, <<>>)
    IN  IF backend_set = <<>> THEN None ELSE Some(backend_set)

create_upstream_selector(upstreams, method) ==
    IF upstreams = <<>> THEN None
    ELSE LET lb == create_lb_from_upstreams(upstreams)
         IN  IF ~IsSome(lb) THEN None
             ELSE IF method = "ip_hash"
             THEN Some([kind |-> "Consistent", backends |-> Unwrap(lb)])
             ELSE IF method = "random"
             THEN Some([kind |-> "Random", backends |-> Unwrap(lb)])
             ELSE Some([kind |-> "RoundRobin", backends |-> Unwrap(lb)])

RECURSIVE SumSeq(_)
SumSeq(q) == IF q = <<>> THEN 0 ELSE Head(q) + SumSeq(Tail(q))

\* the backends a selection can return: those of weight > 0
Selectable(lb) == SelectSeq(lb.backends, LAMBDA b : b.weight > 0)

\* a selection whose consistent hash also moves with the counter (a mutant)
select_by_draw(lb, key, draw) ==
    LET c == Selectable(lb)
    IN  IF c = <<>> THEN None
        ELSE Some(c[((SumSeq(key) + draw) % Len(c)) + 1])

\* UpstreamSelector::select. Consistent hashing is a function of the key;
\* the round-robin counter and the random draw are the input `draw`.
select(lb, key, draw) ==
    LET c == Selectable(lb)
    IN  IF c = <<>> THEN None
        ELSE IF lb.kind = "Consistent" THEN Some(c[(SumSeq(key) % Len(c)) + 1])
        ELSE Some(c[(draw % Len(c)) + 1])

(***************************************************************************)
(* main.rs: SharedState and the dispatcher                                 *)
(***************************************************************************)

\* variant that registers the selector of the location at position i under
\* i counted from one (a mutant)
RECURSIVE lbs_of_host_one_based(_, _, _)
lbs_of_host_one_based(host, i, lbs) ==
    IF i > Len(host.locations) THEN lbs
    ELSE LET loc == host.locations[i]
             lb == create_upstream_selector(loc.upstreams, loc.balance_method)
         IN  IF loc.upstreams # <<>> /\ IsSome(lb)
             THEN lbs_of_host_one_based(host, i + 1,
                      MapPut(lbs, <<host.id, i>>, Unwrap(lb)))
             ELSE lbs_of_host_one_based(host, i + 1, lbs)

\* the selector loop of SharedState::build over one host's locations[i..]
RECURSIVE lbs_of_host(_, _, _)
lbs_of_host(host, i, lbs) ==
    IF i > Len(host.locations) THEN lbs
    ELSE LET loc == host.locations[i]
             lb == create_upstream_selector(loc.upstreams, loc.balance_method)
         IN  IF loc.upstreams # <<>> /\ IsSome(lb)
             THEN lbs_of_host(host, i + 1, MapPut(lbs, <<host.id, i - 1>>, Unwrap(lb)))
             ELSE lbs_of_host(host, i + 1, lbs)

RECURSIVE location_lbs_from(_, _, _)
location_lbs_from(hosts, i, lbs) ==
    IF i > Len(hosts) THEN lbs
    ELSE IF ~hosts[i].enabled THEN location_lbs_from(hosts, i + 1, lbs)
    ELSE location_lbs_from(hosts, i + 1, lbs_of_host(hosts[i], 1, lbs))

\* the address-cache loop of SharedState::build over upstreams[i..] of one
\* location: entry(addr).or_insert_with(addr.to_string())
RECURSIVE addr_cache_of_upstreams(_, _, _)
addr_cache_of_upstreams(upstreams, i, cache) ==
    IF i > Len(upstreams) THEN cache
    ELSE LET a == to_socket_addr(upstreams[i])
         IN  IF IsSome(a) /\ ~IsSome(MapGet(cache, Unwrap(a)))
             THEN addr_cache_of_upstreams(upstreams, i + 1,
                                          MapPut(cache, Unwrap(a), Unwrap(a)))
             ELSE addr_cache_of_upstreams(upstreams, i + 1, cache)

RECURSIVE addr_cache_of_host(_, _, _)
addr_cache_of_host(host, i, cache) ==
    IF i > Len(host.locations) THEN cache
    ELSE addr_cache_of_host(host, i + 1,
             addr_cache_of_upstreams(host.locations[i].upstreams, 1, cache))

RECURSIVE addr_cache_from(_, _, _)
addr_cache_from(hosts, i, cache) ==
    IF i > Len(hosts) THEN cache
    ELSE IF ~hosts[i].enabled THEN addr_cache_from(hosts, i + 1, cache)
    ELSE addr_cache_from(hosts, i + 1, addr_cache_of_host(hosts[i], 1, cache))

\* ssl.rs: the certificate and key files that exist on disk
PemFiles ==
    { "/etc/letsencrypt/live/secure.com/fullchain.pem",
      "/etc/letsencrypt/live/secure.com/privkey.pem",
      "/etc/letsencrypt/live/ex.com/fullchain.pem",
      "/etc/letsencrypt/live/ex.com/privkey.pem",
      "/certs/site.crt", "/certs/site.key" }

\* ssl.rs resolve_cert_pair
resolve_cert_pair(host, ssl, ssl_dir) ==
    IF ssl.ssl_type = "letsencrypt" THEN
        IF host.domains = <<>> THEN None
        ELSE LET domain_lower == to_lowercase(host.domains[1])
                 cert_path == ssl_dir \o "/live/" \o domain_lower \o "/fullchain.pem"
                 key_path == ssl_dir \o "/live/" \o domain_lower \o "/privkey.pem"
             IN  IF cert_path \in PemFiles /\ key_path \in PemFiles
                 THEN Some([cert_path |-> cert_path, key_path |-> key_path])
                 ELSE None
    ELSE IF ssl.ssl_type = "custom" THEN
        IF ~IsSome(ssl.cert_path) \/ ~IsSome(ssl.key_path) THEN None
        ELSE IF Unwrap(ssl.cert_path) \in PemFiles /\ Unwrap(ssl.key_path) \in PemFiles
        THEN Some([cert_path |-> Unwrap(ssl.cert_path),
                   key_path |-> Unwrap(ssl.key_path)])
        ELSE None
    ELSE None

\* the inner loop of SslCertManager::build: one entry per domain
RECURSIVE insert_certs(_, _, _, _)
insert_certs(certs, domains, i, pair) ==
    IF i > Len(domains) THEN certs
    ELSE insert_certs(MapPut(certs, to_lowercase(domains[i]), pair),
                      domains, i + 1, pair)

\* ssl.rs SslCertManager::build over hosts[i..]
RECURSIVE SslCertManager_from(_, _, _, _)
SslCertManager_from(hosts, ssl_dir, i, certs) ==
    IF i > Len(hosts) THEN certs
    ELSE LET host == hosts[i]
             pair == resolve_cert_pair(host, Unwrap(host.ssl), ssl_dir)
         IN  IF ~host.enabled \/ ~IsSome(host.ssl)
             THEN SslCertManager_from(hosts, ssl_dir, i + 1, certs)
             ELSE IF Unwrap(host.ssl).ssl_type = "none" \/ ~IsSome(pair)
             THEN SslCertManager_from(hosts, ssl_dir, i + 1, certs)
             ELSE SslCertManager_from(hosts, ssl_dir, i + 1,
                      insert_certs(certs, host.domains, 1, Unwrap(pair)))

SslCertManager_build(config) ==
    SslCertManager_from(config.hosts, config.global.ssl_dir, 1, EmptyMap)

\* main(): the stream ports of all enabled hosts, which start_stream_proxies
\* binds one listener each
RECURSIVE stream_port_configs(_, _)
stream_port_configs(hosts, i) ==
    IF i > Len(hosts) THEN <<>>
    ELSE IF ~hosts[i].enabled THEN stream_port_configs(hosts, i + 1)
    ELSE hosts[i].stream_ports \o stream_port_configs(hosts, i + 1)

\* SharedState::build (the address cache holds the same text as
\* SocketAddr::to_string, so the address of a backend is its addr)
SharedState_build(config) ==
    [config          |-> config,
     router          |-> Router_build(config.hosts),
     ssl_manager     |-> SslCertManager_build(config),
     location_lbs    |-> location_lbs_from(config.hosts, 1, EmptyMap),
     addr_cache      |-> addr_cache_from(config.hosts, 1, EmptyMap),
     admin_upstream  |-> config.global.admin_upstream,
     error_pages_dir |-> config.global.error_pages_dir,
     default_page    |-> config.global.default_page,
     logs_dir        |-> config.global.logs_dir]

\* the RequestAction variants
Proxy(upstream_addr, host_id, group_id, hsts, custom_headers) ==
    [kind |-> "Proxy", upstream_addr |-> upstream_addr, host_id |-> host_id,
     group_id |-> group_id, hsts |-> hsts, custom_headers |-> custom_headers]
Redirect(status_code, location) ==
    [kind |-> "Redirect", status_code |-> status_code, location |-> location]
ForceHttps(location) == [kind |-> "ForceHttps", location |-> location]
ServeStatic(static_dir, location_path, cache_expires, host_id, group_id, error_pages_dir, custom_headers) ==
    [kind |-> "ServeStatic", static_dir |-> static_dir,
     location_path |-> location_path, cache_expires |-> cache_expires,
     host_id |-> host_id, group_id |-> group_id,
     error_pages_dir |-> error_pages_dir, custom_headers |-> custom_headers]
ServeFile(file_path, cache_expires, host_id, group_id, error_pages_dir, custom_headers) ==
    [kind |-> "ServeFile", file_path |-> file_path,
     cache_expires |-> cache_expires, host_id |-> host_id, group_id |-> group_id,
     error_pages_dir |-> error_pages_dir, custom_headers |-> custom_headers]
ServeDefault(default_page, error_pages_dir) ==
    [kind |-> "ServeDefault", default_page |-> default_page,
     error_pages_dir |-> error_pages_dir]
AccessDenied(error_pages_dir, host_id, group_id) ==
    [kind |-> "AccessDenied", error_pages_dir |-> error_pages_dir,
     host_id |-> host_id, group_id |-> group_id]
AuthRequired == [kind |-> "AuthRequired"]
AcmeChallenge(token) == [kind |-> "AcmeChallenge", token |-> token]
NoUpstream(error_pages_dir, host_id, group_id) ==
    [kind |-> "NoUpstream", error_pages_dir |-> error_pages_dir,
     host_id |-> host_id, group_id |-> group_id]

AcmePrefix == "/.well-known/acme-challenge/"

\* variant that always redirects to forward_path (a mutant)
redirect_location_forward_only(loc, path) ==
    LET scheme == IF IsSome(loc.forward_scheme)
                  THEN Unwrap(loc.forward_scheme) ELSE "https"
        domain == IF IsSome(loc.forward_domain)
                  THEN Unwrap(loc.forward_domain) ELSE ""
        fwd_path == IF IsSome(loc.forward_path)
                    THEN Unwrap(loc.forward_path) ELSE "/"
        status == IF IsSome(loc.status_code)
                  THEN Unwrap(loc.status_code) ELSE 301
    IN  Redirect(status, scheme \o "://" \o domain \o fwd_path)

\* the "redirect" arm of resolve_request
redirect_location(loc, path) ==
    LET scheme == IF IsSome(loc.forward_scheme)
                  THEN Unwrap(loc.forward_scheme) ELSE "https"
        domain == IF IsSome(loc.forward_domain)
                  THEN Unwrap(loc.forward_domain) ELSE ""
        fwd_path == IF IsSome(loc.forward_path)
                    THEN Unwrap(loc.forward_path) ELSE "/"
        status == IF IsSome(loc.status_code)
                  THEN Unwrap(loc.status_code) ELSE 301
        target_path == IF loc.preserve_path THEN path ELSE fwd_path
    IN  Redirect(status, scheme \o "://" \o domain \o target_path)

\* variant that serves from an empty path when a static or file location
\* has no static_dir (a mutant)
dispatch_location_default_dir(state, host_config, location, loc_idx, path, client_ip, draw) ==
    LET host_id == Some(host_config.id)
        group_id == host_config.group_id
        no_upstream == NoUpstream(state.error_pages_dir, host_id, group_id)
    IN  IF ~IsSome(location) THEN no_upstream
        ELSE LET loc == Unwrap(location)
                 loc_type == IF IsSome(loc.location_type)
                             THEN Unwrap(loc.location_type) ELSE "proxy"
             IN  IF loc_type = "redirect" THEN redirect_location(loc, path)
                 ELSE IF loc_type = "static" THEN
                     IF IsSome(loc.static_dir)
                     THEN ServeStatic(Unwrap(loc.static_dir), loc.path,
                                      loc.cache_expires, host_id, group_id,
                                      state.error_pages_dir, loc.headers)
                     ELSE ServeStatic("", loc.path, loc.cache_expires, host_id,
                                      group_id, state.error_pages_dir, loc.headers)
                 ELSE IF loc_type = "file" THEN
                     IF IsSome(loc.static_dir)
                     THEN ServeFile(Unwrap(loc.static_dir), loc.cache_expires,
                                    host_id, group_id, state.error_pages_dir,
                                    loc.headers)
                     ELSE ServeFile("", loc.cache_expires, host_id, group_id,
                                    state.error_pages_dir, loc.headers)
                 ELSE
                     LET key_bytes == IF IsSome(client_ip)
                                      THEN Unwrap(client_ip).o ELSE <<>>
                         lb == IF IsSome(loc_idx)
                               THEN MapGet(state.location_lbs,
                                           <<host_config.id, Unwrap(loc_idx)>>)
                               ELSE None
                         backend == IF IsSome(lb)
                                    THEN select(Unwrap(lb), key_bytes, draw)
                                    ELSE None
                     IN  IF IsSome(backend)
                         THEN Proxy(Unwrap(backend).addr, host_id, group_id,
                                    host_config.hsts, loc.headers)
                         ELSE no_upstream

\* the last part of resolve_request: the match on the location type
dispatch_location(state, host_config, location, loc_idx, path, client_ip, draw) ==
    LET host_id == Some(host_config.id)
        group_id == host_config.group_id
        no_upstream == NoUpstream(state.error_pages_dir, host_id, group_id)
    IN  IF ~IsSome(location) THEN no_upstream
        ELSE LET loc == Unwrap(location)
                 loc_type == IF IsSome(loc.location_type)
                             THEN Unwrap(loc.location_type) ELSE "proxy"
             IN  IF loc_type = "redirect" THEN redirect_location(loc, path)
                 ELSE IF loc_type = "static" THEN
                     IF IsSome(loc.static_dir)
                     THEN ServeStatic(Unwrap(loc.static_dir), loc.path,
                                      loc.cache_expires, host_id, group_id,
                                      state.error_pages_dir, loc.headers)
                     ELSE no_upstream
                 ELSE IF loc_type = "file" THEN
                     IF IsSome(loc.static_dir)
                     THEN ServeFile(Unwrap(loc.static_dir), loc.cache_expires,
                                    host_id, group_id, state.error_pages_dir,
                                    loc.headers)
                     ELSE no_upstream
                 ELSE
                     LET key_bytes == IF IsSome(client_ip)
                                      THEN Unwrap(client_ip).o ELSE <<>>
                         lb == IF IsSome(loc_idx)
                               THEN MapGet(state.location_lbs,
                                           <<host_config.id, Unwrap(loc_idx)>>)
                               ELSE None
                         backend == IF IsSome(lb)
                                    THEN select(Unwrap(lb), key_bytes, draw)
                                    ELSE None
                     IN  IF IsSome(backend)
                         THEN Proxy(Unwrap(backend).addr, host_id, group_id,
                                    host_config.hsts, loc.headers)
                         ELSE no_upstream

\* variant that compares the port with the HTTP port (a mutant)
is_admin_port_http(state, server_port) ==
    IsSome(server_port) /\ Unwrap(server_port) = state.config.global.listen.http

\* the admin-port test of resolve_request
is_admin_port(state, server_port) ==
    IsSome(server_port) /\ Unwrap(server_port) = state.config.global.listen.admin

\* variant that accepts an empty token (a mutant)
acme_token_allow_empty(path) == strip_prefix(path, AcmePrefix)

\* the ACME test of resolve_request: Some(token) when the path is the
\* challenge prefix followed by a non-empty token
acme_token(path) ==
    LET token == strip_prefix(path, AcmePrefix)
    IN  IF IsSome(token) /\ Unwrap(token) # "" THEN token ELSE None

\* variant that also redirects when the server port is unknown (a mutant)
force_https_gate_no_port(state, host_config, server_port) ==
    /\ IsSome(host_config.ssl)
    /\ Unwrap(host_config.ssl).force_https
    /\ (IsSome(server_port) =>
            Unwrap(server_port) = state.config.global.listen.http)

\* the force-HTTPS test of resolve_request
force_https_gate(state, host_config, server_port) ==
    /\ IsSome(host_config.ssl)
    /\ Unwrap(host_config.ssl).force_https
    /\ IsSome(server_port)
    /\ Unwrap(server_port) = state.config.global.listen.http

\* variant that only gates proxy locations (a mutant)
location_acl_proxy_only(state, location) ==
    IF IsSome(location)
        /\ IsSome(Unwrap(location).access_list_id)
        /\ Unwrap(location).location_type \in {None, Some("proxy")}
    THEN MapGet(state.config.access_lists,
                Unwrap(Unwrap(location).access_list_id))
    ELSE None

\* variant that treats a list id the snapshot does not have as a list that
\* denies everybody (a mutant)
location_acl_missing_denies(state, location) ==
    IF IsSome(location) /\ IsSome(Unwrap(location).access_list_id)
    THEN LET acl == MapGet(state.config.access_lists,
                           Unwrap(Unwrap(location).access_list_id))
             deny == [address |-> [kind |-> "all", net |-> None, plen |-> None],
                      directive |-> "deny", parsed_cidr |-> None]
         IN  IF IsSome(acl) THEN acl
             ELSE Some([id |-> 0, satisfy |-> "any", clients |-> <<deny>>,
                        auth |-> <<>>])
    ELSE None

\* the access list resolve_request checks: the one the matched location
\* names, when the snapshot has it
location_acl(state, location) ==
    IF IsSome(location) /\ IsSome(Unwrap(location).access_list_id)
    THEN MapGet(state.config.access_lists,
                Unwrap(Unwrap(location).access_list_id))
    ELSE None

\* ProxyApp::resolve_request against the loaded snapshot `state`. The value
\* holds the returned action and, in `checked`, the result of check_access
\* when the function evaluated it (None when it did not).
resolve_trace(state, req, draw) ==
    LET host_str == IF IsSome(req.host_header) THEN Unwrap(req.host_header) ELSE ""
        path == req.path
        token == acme_token(path)
        resolved == Router_resolve(state.router, host_str, path)
    IN  IF is_admin_port(state, req.server_port)
        THEN [action |-> Proxy(state.admin_upstream, None, None, FALSE, <<>>),
              checked |-> None]
        ELSE IF IsSome(token)
        THEN [action |-> AcmeChallenge(Unwrap(token)), checked |-> None]
        ELSE IF ~IsSome(resolved)
        THEN [action |-> ServeDefault(state.default_page, state.error_pages_dir),
              checked |-> None]
        ELSE
            LET host_config == Unwrap(resolved).host
                location == Unwrap(resolved).location
                loc_idx == Unwrap(resolved).loc_idx
                acl == location_acl(state, location)
                result == check_access(Unwrap(acl), req.client_ip, req.auth_header)
            IN  IF force_https_gate(state, host_config, req.server_port)
                THEN [action |-> ForceHttps("https://" \o host_str \o path),
                      checked |-> None]
                ELSE IF IsSome(acl) /\ result = "Denied"
                THEN [action |-> AccessDenied(state.error_pages_dir,
                                              Some(host_config.id),
                                              host_config.group_id),
                      checked |-> Some(result)]
                ELSE IF IsSome(acl) /\ result = "AuthRequired"
                THEN [action |-> AuthRequired, checked |-> Some(result)]
                ELSE [action |-> dispatch_location(state, host_config, location,
                                     loc_idx, path, req.client_ip, draw),
                      checked |-> IF IsSome(acl) THEN Some(result) ELSE None]

resolve_request(state, req, draw) == resolve_trace(state, req, draw).action

V4(a, b, c, d) == [v |-> 4, o |-> <<a, b, c, d>>]
V6Loopback == [v |-> 6, o |-> <<0, 0, 0, 0, 0, 0, 0, 0, 0, 0, 0, 0, 0, 0, 0, 1>>]

AddrAll == [kind |-> "all", net |-> None, plen |-> None]
AddrCidr(net, plen) == [kind |-> "cidr", net |-> net, plen |-> plen]
AddrSingle(net) == [kind |-> "single", net |-> net, plen |-> None]

Rule(address, directive, parsed) ==
    [address |-> address, directive |-> directive, parsed_cidr |-> parsed]

Net10 == AddrCidr(Some(V4(10, 0, 0, 0)), Some(8))

(***************************************************************************)
(* Configurations (config.rs) the snapshots are built from                 *)
(***************************************************************************)

\* a LocationConfig with the serde defaults of config.rs
LocationDefaults ==
    [path |-> "/", match_type |-> "prefix", location_type |-> Some("proxy"),
     upstreams |-> <<>>, balance_method |-> "round_robin", static_dir |-> None,
     cache_expires |-> None, forward_scheme |-> None, forward_domain |-> None,
     forward_path |-> None, preserve_path |-> FALSE, status_code |-> None,
     headers |-> <<>>, access_list_id |-> None]

\* a HostConfig with the serde defaults of config.rs
HostDefaults ==
    [id |-> 0, domains |-> <<>>, group_id |-> None, ssl |-> None,
     locations |-> <<>>, stream_ports |-> <<>>, hsts |-> FALSE, enabled |-> TRUE]

Upstream(server, port, weight) ==
    [server |-> server, port |-> port, weight |-> weight]

TwoUpstreams == <<Upstream("10.0.0.1", 8080, 1), Upstream("10.0.0.2", 8080, 1)>>

ProxyLocation(path, acl) ==
    [LocationDefaults EXCEPT !.path = path, !.upstreams = TwoUpstreams,
                             !.access_list_id = acl]

\* redirects with every field set and with none set, a proxy location whose
\* only upstream does not resolve, one with an upstream that does not
\* resolve and one that does, and the catch-all proxy location
HostExample ==
    [HostDefaults EXCEPT !.id = 1, !.domains = <<"example.com">>,
        !.locations = <<
            [LocationDefaults EXCEPT !.path = "/r2", !.location_type = Some("redirect"),
                !.forward_scheme = Some("http"), !.forward_domain = Some("old.com"),
                !.forward_path = Some("/new"), !.status_code = Some(302)],
            [LocationDefaults EXCEPT !.path = "/r3", !.location_type = Some("redirect")],
            [LocationDefaults EXCEPT !.path = "/dead",
                !.upstreams = <<Upstream("nohost.invalid", 8080, 1)>>],
            [LocationDefaults EXCEPT !.path = "/mix",
                !.upstreams = <<Upstream("nohost.invalid", 8080, 1),
                                Upstream("backend.local", 9000, 2)>>],
            ProxyLocation("/", None) >>,
        !.stream_ports = <<[port |-> 5432, protocol |-> "tcp",
                            upstreams |-> TwoUpstreams,
                            balance_method |-> "round_robin"]>>]

\* force_https with an access list that denies everybody
HostSecure ==
    [HostDefaults EXCEPT !.id = 2, !.domains = <<"Secure.com">>,
        !.group_id = Some(10), !.hsts = TRUE,
        !.ssl = Some([ssl_type |-> "letsencrypt", force_https |-> TRUE,
                      cert_path |-> None, key_path |-> None]),
        !.locations = <<ProxyLocation("/", Some(1))>>]

\* one location of every type behind access list 3, and proxy locations
\* behind the other lists and behind a list id the snapshot does not have
HostAcl ==
    [HostDefaults EXCEPT !.id = 3, !.domains = <<"acl.com">>,
        !.ssl = Some([ssl_type |-> "custom", force_https |-> FALSE,
                      cert_path |-> Some("/certs/site.crt"),
                      key_path |-> Some("/certs/site.key")]),
        !.locations = <<
            [LocationDefaults EXCEPT !.path = "/r", !.location_type = Some("redirect"),
                !.forward_domain = Some("new.com"), !.preserve_path = TRUE,
                !.access_list_id = Some(3)],
            [LocationDefaults EXCEPT !.path = "/s", !.location_type = Some("static"),
                !.static_dir = Some("/var/www"), !.access_list_id = Some(3),
                !.headers = <<<<"x-frame-options", "DENY">>>>],
            [LocationDefaults EXCEPT !.path = "/f", !.location_type = Some("file"),
                !.static_dir = Some("/var/www/f.html"), !.access_list_id = Some(3)],
            ProxyLocation("/p", Some(3)),
            [LocationDefaults EXCEPT !.path = "/n", !.access_list_id = Some(3)],
            ProxyLocation("/m", Some(99)),
            ProxyLocation("/d", Some(1)),
            ProxyLocation("/a", Some(2)) >>]

\* a host file whose domain list holds the empty string
HostEmptyDomain ==
    [HostDefaults EXCEPT !.id = 4, !.domains = <<"">>,
        !.locations = <<ProxyLocation("/", None)>>]

HostDisabled ==
    [HostDefaults EXCEPT !.id = 5, !.domains = <<"off.com">>, !.enabled = FALSE,
        !.locations = <<ProxyLocation("/", None)>>,
        !.stream_ports = <<[port |-> 6379, protocol |-> "tcp",
                            upstreams |-> TwoUpstreams,
                            balance_method |-> "round_robin"]>>]

AclDenyAll ==
    [id |-> 1, satisfy |-> "any", clients |-> <<Rule(AddrAll, "deny", None)>>,
     auth |-> <<>>]
AclAuth ==
    [id |-> 2, satisfy |-> "any", clients |-> <<>>,
     auth |-> <<[username |-> "admin", password |-> "secret"]>>]
AclNetAndAuth ==
    [id |-> 3, satisfy |-> "all", clients |-> <<Rule(Net10, "allow", None)>>,
     auth |-> <<[username |-> "admin", password |-> "secret"]>>]

AccessListMap ==
    MapPut(MapPut(MapPut(EmptyMap, 1, AclDenyAll), 2, AclAuth), 3, AclNetAndAuth)

\* the built-in defaults of AppConfig::load
GlobalDefault ==
    [listen |-> [http |-> 80, https |-> 443, admin |-> 81],
     admin_upstream |-> "127.0.0.1:3001",
     default_page |-> "/data/default-page/index.html",
     error_pages_dir |-> "/data/error-pages",
     logs_dir |-> "/data/logs",
     ssl_dir |-> "/etc/letsencrypt"]

\* a global.yaml that swaps the admin and HTTP ports and moves the directories
GlobalMoved ==
    [listen |-> [http |-> 81, https |-> 443, admin |-> 80],
     admin_upstream |-> "127.0.0.1:4001",
     default_page |-> "/srv/default/index.html",
     error_pages_dir |-> "/srv/error-pages",
     logs_dir |-> "/srv/logs",
     ssl_dir |-> "/etc/letsencrypt"]

\* what main() falls back to when the first load fails, and what an empty
\* configs directory loads to
StartupDefaults ==
    [global |-> GlobalDefault, hosts |-> <<>>, access_lists |-> EmptyMap]

\* the configurations a load can return
ConfigPool ==
    << [global |-> GlobalDefault,
        hosts |-> <<HostExample, HostSecure, HostAcl, HostDisabled>>,
        access_lists |-> AccessListMap],
       [global |-> GlobalMoved,
        hosts |-> <<HostSecure, HostAcl>>,
        access_lists |-> AccessListMap],
       [global |-> GlobalDefault,
        hosts |-> <<HostEmptyDomain, HostExample>>,
        access_lists |-> EmptyMap],
       StartupDefaults >>

\* the snapshot SharedState::build makes of each configuration
Snapshots == [i \in DOMAIN ConfigPool |-> SharedState_build(ConfigPool[i])]

(***************************************************************************)
(* The dispatcher on its own: the specification SpecDispatch draws a       *)
(* snapshot and a request and applies resolve_request.                     *)
(***************************************************************************)
\* admin:secret, admin:WRONG
AuthHeaders ==
    { None, Some("Basic YWRtaW46c2VjcmV0"), Some("Basic YWRtaW46V1JPTkc=") }

HostHeaders ==
    { None, Some(""), Some("example.com"), Some("Secure.COM:8443"),
      Some("acl.com"), Some("unknown.com"), Some("off.com") }

Paths ==
    { "/", "/r/x", "/s/a.css", "/f", "/p", "/n", "/m", "/d", "/a",
      "/r2", "/r3/x", "/dead", "/mix",
      "/.well-known/acme-challenge", "/.well-known/acme-challenge/",
      "/.well-known/acme-challenge/tok", "/x/.well-known/acme-challenge/tok" }

ServerPorts == { None, Some(80), Some(81), Some(443) }

RequestIps == { None, Some(V4(10, 0, 0, 1)), Some(V4(11, 0, 0, 1)) }

Requests ==
    [host_header : HostHeaders, path : Paths, server_port : ServerPorts,
     client_ip : RequestIps, auth_header : AuthHeaders]

\* values of the round-robin counter / random draw of a selector
Draws == {0, 1}


(***************************************************************************)
(* static_files.rs: serve_static_file over a filesystem with a symlinked   *)
(* base directory. A path is the sequence of its components below "/".     *)
(***************************************************************************)
CACHE_TTL_SECS == 30
FILE_CACHE_MAX == 1024

\* Path components of a string: the text between slashes, from position i
RECURSIVE path_components(_, _)
path_components(s, i) ==
    IF i > Len(s) THEN <<>>
    ELSE LET j == FindFrom(s, "/", i)
         IN  IF j = 0 THEN <<SubSeq(s, i, Len(s))>>
             ELSE IF j = i THEN path_components(s, i + 1)
             ELSE <<SubSeq(s, i, j - 1)>> \o path_components(s, j + 1)

\* PathBuf::from
PathBuf_from(s) == path_components(s, 1)

\* str::trim_start_matches('/')
RECURSIVE trim_start_slashes(_)
trim_start_slashes(s) ==
    IF Len(s) > 0 /\ Char(s, 1) = "/" THEN trim_start_slashes(Tail(s)) ELSE s

\* Path::starts_with: a whole-component prefix
path_starts_with(path, base) ==
    Len(base) <= Len(path) /\ SubSeq(path, 1, Len(base)) = base

\* the directories, the symlink and the regular files of the filesystem
Dirs == { <<>>, <<"a">>, <<"a", "sub">> }
Link == <<"www">>
LinkTargets == { <<"a">>, <<"a", "sub">> }
FilePaths == { <<"a", "secret.txt">>, <<"a", "sub", "index.html">>,
               <<"a", "sub", "x.css">> }

\* fs::canonicalize: walks the components from `cur`, follows the symlink,
\* steps up on "..", fails (None) on a missing entry or a file used as a
\* directory; `files` maps the regular files that exist to their contents
RECURSIVE canonicalize_from(_, _, _, _, _)
canonicalize_from(link, files, comps, i, cur) ==
    IF i > Len(comps) THEN Some(cur)
    ELSE IF cur \notin Dirs THEN None
    ELSE IF comps[i] = "." THEN canonicalize_from(link, files, comps, i + 1, cur)
    ELSE IF comps[i] = ".." THEN
        canonicalize_from(link, files, comps, i + 1,
                          IF cur = <<>> THEN cur ELSE SubSeq(cur, 1, Len(cur) - 1))
    ELSE LET next == Append(cur, comps[i])
         IN  IF next = Link THEN canonicalize_from(link, files, comps, i + 1, link)
             ELSE IF next \in Dirs \cup DOMAIN files
             THEN canonicalize_from(link, files, comps, i + 1, next)
             ELSE None

canonicalize(link, files, path) == canonicalize_from(link, files, path, 1, <<>>)

\* fs::metadata(path).is_dir(), which follows symlinks
is_dir(link, files, path) ==
    /\ IsSome(canonicalize(link, files, path))
    /\ Unwrap(canonicalize(link, files, path)) \in Dirs

\* fs::metadata(path).is_file()
is_file(link, files, path) ==
    /\ IsSome(canonicalize(link, files, path))
    /\ Unwrap(canonicalize(link, files, path)) \in DOMAIN files

\* the Last-Modified text of a modification time
http_date(mtime) == "mtime-" \o ToString(mtime)

(***************************************************************************)
(* parse_cache_duration.  A u64 is kept as its decimal numeral (a string   *)
(* of digits without leading zeros), so that values up to 2^64 - 1 and the *)
(* overflow of checked_mul keep their meaning.                             *)
(***************************************************************************)
Digits == "0123456789"

IsDigits(s) == s # "" /\ \A i \in 1..Len(s) : Find(Digits, Char(s, i)) > 0

\* u64::MAX
U64_MAX == "18446744073709551615"

\* char::is_whitespace, on the characters the inputs hold
is_whitespace(c) == c \in {" ", "\t", "\n"}

RECURSIVE trim_start(_)
trim_start(s) ==
    IF s # "" /\ is_whitespace(Char(s, 1)) THEN trim_start(Tail(s)) ELSE s

RECURSIVE trim_end(_)
trim_end(s) ==
    IF s # "" /\ is_whitespace(Char(s, Len(s)))
    THEN trim_end(SubSeq(s, 1, Len(s) - 1)) ELSE s

\* str::trim
trim(s) == trim_end(trim_start(s))

\* the numeral of a digit string: its leading zeros dropped
RECURSIVE numeral(_)
numeral(s) ==
    IF Len(s) > 1 /\ Char(s, 1) = "0" THEN numeral(Tail(s)) ELSE s

\* a < b on digit strings of the same length
RECURSIVE digits_less(_, _)
digits_less(a, b) ==
    IF a = "" THEN FALSE
    ELSE IF Char(a, 1) # Char(b, 1)
         THEN Find(Digits, Char(a, 1)) < Find(Digits, Char(b, 1))
         ELSE digits_less(Tail(a), Tail(b))

\* a <= u64::MAX on numerals
fits_u64(a) ==
    \/ Len(a) < Len(U64_MAX)
    \/ Len(a) = Len(U64_MAX) /\ ~digits_less(U64_MAX, a)

\* str::parse::<u64>: an optional '+', then decimal digits; Err (None) on
\* anything else and on a value that does not fit
parse_u64(s) ==
    LET t == IF starts_with(s, "+") THEN Tail(s) ELSE s
    IN  IF IsDigits(t) /\ fits_u64(numeral(t)) THEN Some(numeral(t)) ELSE None

\* the digits of s[1..i] * k + carry
RECURSIVE mul_from(_, _, _, _)
mul_from(s, i, k, carry) ==
    IF i = 0 THEN (IF carry = 0 THEN "" ELSE ToString(carry))
    ELSE LET v == (Find(Digits, Char(s, i)) - 1) * k + carry
         IN  mul_from(s, i - 1, k, v \div 10) \o Char(Digits, (v % 10) + 1)

\* u64::saturating_mul in the place of checked_mul (a mutant)
saturating_mul(a, k) ==
    LET p == numeral(mul_from(a, Len(a), k, 0))
    IN  IF fits_u64(p) THEN Some(p) ELSE Some(U64_MAX)

\* u64::checked_mul by a multiplier: None on overflow
checked_mul(a, k) ==
    LET p == numeral(mul_from(a, Len(a), k, 0))
    IN  IF fits_u64(p) THEN Some(p) ELSE None

\* str::strip_suffix of one character
strip_suffix(s, c) ==
    IF ends_with(s, c) THEN Some(SubSeq(s, 1, Len(s) - 1)) ELSE None

\* Option::unwrap_or
unwrap_or(o, default) == IF IsSome(o) THEN Unwrap(o) ELSE default

\* the (num_str, multiplier) pair of parse_cache_duration, None when the
\* text ends in none of d, h, m, s
duration_parts(s) ==
    IF IsSome(strip_suffix(s, "d")) THEN Some(<<Unwrap(strip_suffix(s, "d")), 86400>>)
    ELSE IF IsSome(strip_suffix(s, "h")) THEN Some(<<Unwrap(strip_suffix(s, "h")), 3600>>)
    ELSE IF IsSome(strip_suffix(s, "m")) THEN Some(<<Unwrap(strip_suffix(s, "m")), 60>>)
    ELSE IF IsSome(strip_suffix(s, "s")) THEN Some(<<Unwrap(strip_suffix(s, "s")), 1>>)
    ELSE None

\* parse_cache_duration: the seconds, as a numeral
parse_cache_duration(text) ==
    LET s == trim(text)
        parts == duration_parts(s)
    IN  IF s = "" THEN "0"
        ELSE IF IsSome(parse_u64(s)) THEN Unwrap(parse_u64(s))
        ELSE IF ~IsSome(parts) THEN "0"
        ELSE unwrap_or(checked_mul(unwrap_or(parse_u64(trim(Unwrap(parts)[1])), "0"),
                                   Unwrap(parts)[2]), "0")

\* the Cache-Control header of build_200_response, None when it sets none
cache_control(cache_expires) ==
    IF IsSome(cache_expires) /\ parse_cache_duration(Unwrap(cache_expires)) # "0"
    THEN Some("public, max-age=" \o parse_cache_duration(Unwrap(cache_expires)))
    ELSE None

StaticFileResponse(status, body, last_modified, cache_control_header) ==
    [status |-> status, body |-> body, last_modified |-> last_modified,
     cache_control |-> cache_control_header]

\* build_200_response: Last-Modified, and Cache-Control from cache_expires
build_200_response(body, last_modified, cache_expires) ==
    Some(StaticFileResponse(200, body, last_modified, cache_control(cache_expires)))

NotModified(last_modified) ==
    Some(StaticFileResponse(304, "", last_modified, None))

\* the path serve_static_file looks up: base_dir joined with the request
\* path stripped of the location prefix, index.html added for a directory
static_file_path(link, files, base_dir, request_path, location_path) ==
    LET stripped == strip_prefix(request_path, location_path)
        relative == trim_start_slashes(IF IsSome(stripped) THEN Unwrap(stripped)
                                       ELSE request_path)
        joined == PathBuf_from(base_dir) \o PathBuf_from(relative)
    IN  IF is_dir(link, files, joined) THEN Append(joined, "index.html") ELSE joined

\* the canonical base directory serve_static_file compares with: the
\* BASE_DIR_CACHE entry when there is one, else a fresh canonicalize
base_canonical_of(link, files, cache, base_dir) ==
    IF IsSome(MapGet(cache, base_dir)) THEN MapGet(cache, base_dir)
    ELSE canonicalize(link, files, PathBuf_from(base_dir))

\* FILE_CACHE after an insert: one arbitrary entry is evicted when the map
\* has grown beyond FILE_CACHE_MAX; the set of the possible maps
file_cache_inserts(cache, key, entry) ==
    LET m == MapPut(cache, key, entry)
    IN  IF Cardinality(DOMAIN m) > FILE_CACHE_MAX
        THEN { [k \in (DOMAIN m) \ {victim} |-> m[k]] : victim \in DOMAIN m }
        ELSE { m }

\* variant that still uses an entry whose age equals the TTL (a mutant)
cache_entry_fresh_inclusive(t, cached) ==
    IsSome(cached) /\ t - Unwrap(cached).cached_at <= CACHE_TTL_SECS

\* the test on a FILE_CACHE entry at time t: present and younger than the TTL
cache_entry_fresh(t, cached) ==
    IsSome(cached) /\ t - Unwrap(cached).cached_at < CACHE_TTL_SECS

\* serve_static_file: the set of possible outcomes [result, base_dir_cache,
\* file_cache] of one call at time t
serve_static_file(link, files, t, bcache, fcache, base_dir, request_path, location_path, cache_expires, if_modified_since) ==
    LET file_path == static_file_path(link, files, base_dir, request_path,
                                      location_path)
        canonical == canonicalize(link, files, file_path)
        base_canonical == base_canonical_of(link, files, bcache, base_dir)
        bcache2 == IF IsSome(MapGet(bcache, base_dir)) \/ ~IsSome(base_canonical)
                   THEN bcache
                   ELSE MapPut(bcache, base_dir, Unwrap(base_canonical))
        out(result, b, f) == [result |-> result, base_dir_cache |-> b,
                              file_cache |-> f]
    IN  IF ~IsSome(canonical) THEN { out(None, bcache, fcache) }
        ELSE IF ~IsSome(base_canonical) THEN { out(None, bcache, fcache) }
        ELSE IF ~path_starts_with(Unwrap(canonical), Unwrap(base_canonical))
        THEN { out(None, bcache2, fcache) }
        ELSE IF ~is_file(link, files, Unwrap(canonical))
        THEN { out(None, bcache2, fcache) }
        ELSE
            LET key == Unwrap(canonical)
                cached == MapGet(fcache, key)
                fresh == cache_entry_fresh(t, cached)
                last_modified_str == http_date(files[key].mtime)
            IN  IF fresh THEN
                    IF if_modified_since = Some(Unwrap(cached).last_modified)
                    THEN { out(NotModified(Unwrap(cached).last_modified),
                               bcache2, fcache) }
                    ELSE { out(build_200_response(Unwrap(cached).body,
                                   Unwrap(cached).last_modified, cache_expires),
                               bcache2, fcache) }
                ELSE IF if_modified_since = Some(last_modified_str)
                THEN { out(NotModified(last_modified_str), bcache2, fcache) }
                ELSE { out(build_200_response(files[key].body, last_modified_str,
                                              cache_expires), bcache2, f) :
                       f \in file_cache_inserts(fcache, key,
                                [body |-> files[key].body,
                                 last_modified |-> last_modified_str,
                                 cached_at |-> t]) }

(***************************************************************************)
(* The specifications below share the variables; each one runs its own     *)
(* part and leaves the others at these values.                             *)
(***************************************************************************)
ProxyCtx_new(error_pages_dir, logs_dir) ==
    [upstream_addr |-> None, host_id |-> None, group_id |-> None,
     hsts |-> FALSE, custom_headers |-> <<>>,
     error_pages_dir |-> error_pages_dir, logs_dir |-> logs_dir]

NoSnapshot == [cfg |-> 0, gen |-> 0]
NoCtx == [fields |-> ProxyCtx_new("", ""), snapshot |-> NoSnapshot]
NoAction == [kind |-> "None"]

\* no request_filter has run: no action, no snapshot, no file read
NoRequestAction == [action |-> NoAction, snapshot |-> NoSnapshot, found |-> FALSE]

\* the evaluators before a call
EvaluatorsIdle ==
    /\ chk_in = None /\ chk_out = None
    /\ d_cfg = 1 /\ d_req = None /\ d_out = None

\* the router and the pure functions before a call
PureIdle ==
    /\ rt_hosts = <<>> /\ rt_req = None /\ rt_out = None
    /\ fn_in = None /\ fn_out = None

\* the tasks that serve files at the same time
MaxTasks == 2
CacheTasks == 1..MaxTasks

\* a task between two calls
TaskIdle == [pc |-> "idle", kind |-> "none", key |-> "", victim |-> None]

\* FILE_CACHE with nothing in it and no call under way
CacheIdle ==
    /\ fc_keys = {} /\ fc_others = 0
    /\ fc_task = [t \in CacheTasks |-> TaskIdle]
    /\ fc_calls = 0 /\ fc_picks = 0

\* the paths the log entries name: two that open, one that does not
LogPaths == {"/data/logs/proxy_general.log", "/data/logs/proxy-host-1_access.log",
             "/proc/logs/proxy-host-2_access.log"}

\* the log channel and the log writer right after main() created them
LogIdle ==
    /\ lq_queue = <<>> /\ lq_closed = FALSE
    /\ lw_pc = "running"
    /\ lw_writers = {} /\ lw_dirty = {}
    /\ lw_count = 0 /\ lw_unflushed = 0
    /\ lw_failed_opens = [p \in LogPaths |-> 0]

\* no stream proxy
StreamIdle ==
    /\ sp_pc = "accept" /\ sp_config = None /\ sp_index = 0 /\ sp_conns = <<>>

\* the two ends of a forwarded connection and its two copy loops
Sides == {"client", "upstream"}

\* the end a copy loop writes to
other(side) == IF side = "client" THEN "upstream" ELSE "client"

\* no forwarded connection
TcpIdle ==
    /\ tp_peer = [s \in Sides |-> [pending |-> <<>>, state |-> "open"]]
    /\ tp_sent = [s \in Sides |-> <<>>]
    /\ tp_dir = [s \in Sides |-> [pc |-> "read", buf |-> <<>>, read |-> <<>>, written |-> <<>>]]
    /\ tp_shut = {}
    /\ tp_state = "none"

\* no dispatch logged
HashIdle == ih_log = <<>>

\* main() has bound nothing
NoBoot == [cfg |-> 0, http |-> None, https |-> None, admin |-> None]

BootIdle == proc = "running" /\ boot = NoBoot /\ stream_tasks = <<>>

\* the parts of the program the other specifications leave untouched
LaterIdle ==
    /\ CacheIdle
    /\ LogIdle
    /\ StreamIdle
    /\ TcpIdle
    /\ HashIdle
    /\ BootIdle

\* the proxy before main() runs
ProxyIdle ==
    /\ disk = 0
    /\ published = NoSnapshot
    /\ listeners = {}
    /\ sighup = FALSE
    /\ sent = 0
    /\ reload_pc = "sleep"
    /\ reload_log = <<>>
    /\ r_pc = "idle"
    /\ r_req = None
    /\ ctx = NoCtx
    /\ r_act = NoRequestAction
    /\ r_resp = None
    /\ log_sink = <<>>
    /\ served = 0

\* the static file server before its first call
Body(version) == "v" \o ToString(version)

StaticIdle ==
    /\ fs_link = <<"a">>
    /\ fs_files = [f \in FilePaths |-> [body |-> Body(1), mtime |-> 0, version |-> 1]]
    /\ now = 0
    /\ base_dir_cache = EmptyMap
    /\ file_cache = EmptyMap
    /\ st_out = None

(***************************************************************************)
(* The running proxy: main()'s startup, the SIGHUP reload thread and the   *)
(* ProxyHttp callbacks of one request at a time.                           *)
(***************************************************************************)
MaxSighups == 2
MaxRequests == 2

\* AppConfig::load of the configs directory: None for Err
AppConfig_load(dir) == IF dir = 0 THEN None ELSE Some(dir)

\* the directory contents: unparsable, the first or the second configuration
Disks == {0, 1, 2}

\* the configuration main() starts with
startup_config(dir) ==
    IF IsSome(AppConfig_load(dir)) THEN Unwrap(AppConfig_load(dir))
    ELSE Len(ConfigPool)

\* the snapshot the ArcSwap holds
Loaded(p) == Snapshots[p.cfg]

\* variant that publishes the startup defaults when the load fails (a mutant)
reload_store_defaults(current, loaded) ==
    IF IsSome(loaded)
    THEN [cfg |-> Unwrap(loaded), gen |-> current.gen + 1]
    ELSE [cfg |-> Len(ConfigPool), gen |-> current.gen + 1]

\* the match on the load result in the reload thread: the ArcSwap afterwards
reload_store(current, loaded) ==
    IF IsSome(loaded)
    THEN [cfg |-> Unwrap(loaded), gen |-> current.gen + 1]
    ELSE current

\* error_pages::serve_error_page: the response for the status code, with the
\* directory and the ids its lookup uses
serve_error_page(error_pages_dir, status_code, host_id, group_id) ==
    [status |-> status_code, error_pages_dir |-> Some(error_pages_dir),
     host_id |-> host_id, group_id |-> group_id, www_authenticate |-> None]

\* a response that is not an error page
Plain(status_code) ==
    [status |-> status_code, error_pages_dir |-> None,
     host_id |-> None, group_id |-> None, www_authenticate |-> None]

\* the 401 of request_filter, with its WWW-Authenticate header
Unauthorized ==
    [status |-> 401, error_pages_dir |-> None, host_id |-> None,
     group_id |-> None, www_authenticate |-> Some("Basic realm=\"Restricted\"")]

\* the arms of request_filter that read a file to answer
reads_file(action) ==
    action.kind \in {"ServeStatic", "ServeFile", "ServeDefault", "AcmeChallenge"}

\* the response request_filter writes for an action other than Proxy;
\* `found` says whether the file the action names could be served
filter_response(action, found) ==
    IF action.kind = "Redirect" THEN Plain(action.status_code)
    ELSE IF action.kind = "ForceHttps" THEN Plain(301)
    ELSE IF action.kind \in {"ServeStatic", "ServeFile"} THEN
        IF found THEN Plain(200)
        ELSE serve_error_page(action.error_pages_dir, 404,
                              action.host_id, action.group_id)
    ELSE IF action.kind = "ServeDefault" THEN
        IF found THEN Plain(200)
        ELSE serve_error_page(action.error_pages_dir, 404, None, None)
    ELSE IF action.kind = "AccessDenied" THEN
        serve_error_page(action.error_pages_dir, 403,
                         action.host_id, action.group_id)
    ELSE IF action.kind = "AcmeChallenge" THEN
        IF found THEN Plain(200) ELSE Plain(404)
    ELSE IF action.kind = "AuthRequired" THEN Unauthorized
    ELSE serve_error_page(action.error_pages_dir, 502,
                          action.host_id, action.group_id)

\* the file logging() addresses its access entry to
access_log_file(c) ==
    IF IsSome(c.host_id)
    THEN c.logs_dir \o "/proxy-host-" \o ToString(Unwrap(c.host_id)) \o "_access.log"
    ELSE c.logs_dir \o "/proxy_general.log"

\* the file logging() addresses its error entry to
error_log_file(c) ==
    IF IsSome(c.host_id)
    THEN c.logs_dir \o "/proxy-host-" \o ToString(Unwrap(c.host_id)) \o "_error.log"
    ELSE c.logs_dir \o "/proxy_general.log"

\* the requests the running proxy receives, apart from their port
LifeRequests ==
    { [host_header |-> Some("example.com"), path |-> "/",
       client_ip |-> Some(V4(11, 0, 0, 1)), auth_header |-> None],
      [host_header |-> Some("acl.com"), path |-> "/d",
       client_ip |-> None, auth_header |-> None] }

WithPort(req, port) ==
    [host_header |-> req.host_header, path |-> req.path,
     server_port |-> Some(port), client_ip |-> req.client_ip,
     auth_header |-> req.auth_header]

\* the error codes fail_to_proxy derives from the error: an upstream error,
\* a downstream error, any other
FailCodes == {502, 0, 500}

Init ==
    /\ LaterIdle
    /\ EvaluatorsIdle
    /\ StaticIdle
    /\ PureIdle
    /\ disk \in Disks
    /\ published = [cfg |-> startup_config(disk), gen |-> 0]
    /\ listeners = { ConfigPool[startup_config(disk)].global.listen.http,
                     ConfigPool[startup_config(disk)].global.listen.admin }
    /\ sighup = FALSE
    /\ sent = 0
    /\ reload_pc = "sleep"
    /\ reload_log = <<>>
    /\ r_pc = "idle"
    /\ r_req = None
    /\ ctx = NoCtx
    /\ r_act = NoRequestAction
    /\ r_resp = None
    /\ log_sink = <<>>
    /\ served = 0

\* an operator or the admin backend rewrites the configs directory
EditConfigs ==
    /\ \E d \in Disks \ {disk} : disk' = d
    /\ UNCHANGED <<published, listeners, sighup, sent, reload_pc, reload_log>>
    /\ UNCHANGED <<accVars, dispVars, reqVars, staticVars, routerVars, fnVars, laterVars>>

\* sighup_handler
Sighup ==
    /\ sent < MaxSighups
    /\ sighup' = TRUE
    /\ sent' = sent + 1
    /\ UNCHANGED <<disk, published, listeners, reload_pc, reload_log>>
    /\ UNCHANGED <<accVars, dispVars, reqVars, staticVars, routerVars, fnVars, laterVars>>

\* the reload thread wakes up and finds the flag set
ReloadPoll ==
    /\ reload_pc = "sleep"
    /\ sighup
    /\ sighup' = FALSE
    /\ reload_pc' = "load"
    /\ UNCHANGED <<disk, published, listeners, sent, reload_log>>
    /\ UNCHANGED <<accVars, dispVars, reqVars, staticVars, routerVars, fnVars, laterVars>>

\* the reload thread loads the directory and stores or logs
ReloadLoad ==
    /\ reload_pc = "load"
    /\ published' = reload_store(published, AppConfig_load(disk))
    /\ reload_log' = Append(reload_log,
                            IF IsSome(AppConfig_load(disk))
                            THEN "Configuration reloaded successfully"
                            ELSE "Failed to reload config")
    /\ reload_pc' = "sleep"
    /\ UNCHANGED <<disk, listeners, sighup, sent>>
    /\ UNCHANGED <<accVars, dispVars, reqVars, staticVars, routerVars, fnVars, laterVars>>

\* ProxyApp::new_ctx for a request of the pool arriving on one of the
\* listeners
NewCtxOf(requests) ==
    /\ r_pc = "idle"
    /\ served < MaxRequests
    /\ \E req \in requests, port \in listeners : r_req' = WithPort(req, port)
    /\ ctx' = [fields |-> ProxyCtx_new(Loaded(published).error_pages_dir,
                                       Loaded(published).logs_dir),
               snapshot |-> published]
    /\ r_act' = NoRequestAction
    /\ r_resp' = None
    /\ r_pc' = "ctx"
    /\ UNCHANGED <<log_sink, served>>
    /\ UNCHANGED <<accVars, dispVars, reloadVars, staticVars, routerVars, fnVars, laterVars>>

NewCtx == NewCtxOf(LifeRequests)

\* the Proxy arm without the store of the upstream address (a mutant)
ctx_with_proxy_no_addr(c, action) ==
    IF action.kind = "Proxy"
    THEN [upstream_addr |-> None,
          host_id |-> action.host_id, group_id |-> action.group_id,
          hsts |-> action.hsts, custom_headers |-> action.custom_headers,
          error_pages_dir |-> c.error_pages_dir, logs_dir |-> c.logs_dir]
    ELSE c

\* the Proxy arm of request_filter: the context afterwards
ctx_with_proxy(c, action) ==
    IF action.kind = "Proxy"
    THEN [upstream_addr |-> Some(action.upstream_addr),
          host_id |-> action.host_id, group_id |-> action.group_id,
          hsts |-> action.hsts, custom_headers |-> action.custom_headers,
          error_pages_dir |-> c.error_pages_dir, logs_dir |-> c.logs_dir]
    ELSE c

\* ProxyApp::request_filter
RequestFilter ==
    /\ r_pc = "ctx"
    /\ \E draw \in Draws, found \in BOOLEAN :
          /\ r_act' = [action |-> resolve_request(Loaded(published), r_req, draw),
                       snapshot |-> published,
                       found |-> found /\ reads_file(resolve_request(
                                                Loaded(published), r_req, draw))]
          /\ r_resp' = IF r_act'.action.kind = "Proxy" THEN None
                       ELSE Some(filter_response(r_act'.action, found))
    /\ ctx' = [fields |-> ctx_with_proxy(ctx.fields, r_act'.action),
               snapshot |-> ctx.snapshot]
    /\ r_pc' = IF r_act'.action.kind = "Proxy" THEN "upstream" ELSE "responded"
    /\ UNCHANGED <<r_req, log_sink, served>>
    /\ UNCHANGED <<accVars, dispVars, reloadVars, staticVars, routerVars, fnVars, laterVars>>

\* the upstream answers
UpstreamResponds ==
    /\ r_pc = "upstream"
    /\ r_resp' = Some(Plain(200))
    /\ r_pc' = "responded"
    /\ UNCHANGED <<r_req, ctx, r_act, log_sink, served>>
    /\ UNCHANGED <<accVars, dispVars, reloadVars, staticVars, routerVars, fnVars, laterVars>>

\* ProxyApp::fail_to_proxy
FailToProxy ==
    /\ r_pc = "upstream"
    /\ \E code \in FailCodes :
          r_resp' = IF code > 0
                    THEN Some(serve_error_page(ctx.fields.error_pages_dir, code,
                                  ctx.fields.host_id, ctx.fields.group_id))
                    ELSE None
    /\ r_pc' = "failed"
    /\ UNCHANGED <<r_req, ctx, r_act, log_sink, served>>
    /\ UNCHANGED <<accVars, dispVars, reloadVars, staticVars, routerVars, fnVars, laterVars>>

\* ProxyApp::logging
Logging ==
    /\ r_pc \in {"responded", "failed"}
    /\ log_sink' = IF r_pc = "failed"
                   THEN <<error_log_file(ctx.fields), access_log_file(ctx.fields)>>
                   ELSE <<access_log_file(ctx.fields)>>
    /\ served' = served + 1
    /\ r_pc' = "idle"
    /\ r_req' = None
    /\ ctx' = NoCtx
    /\ r_act' = NoRequestAction
    /\ r_resp' = None
    /\ UNCHANGED <<accVars, dispVars, reloadVars, staticVars, routerVars, fnVars, laterVars>>

Next ==
    \/ EditConfigs
    \/ Sighup
    \/ ReloadPoll
    \/ ReloadLoad
    \/ NewCtx
    \/ RequestFilter
    \/ UpstreamResponds
    \/ FailToProxy
    \/ Logging

Spec == Init /\ [][Next]_vars

\* the reload thread runs for ever: it polls the flag every second and a
\* load returns
SpecLive == Spec /\ WF_vars(ReloadPoll) /\ WF_vars(ReloadLoad)

(***************************************************************************)
(* The callbacks of a request on their own: the specification SpecRequest  *)
(* keeps the snapshot main() published and sends requests that reach every *)
(* arm of request_filter.                                                  *)
(***************************************************************************)
FilterRequests ==
    [host_header : {Some("example.com"), Some("Secure.COM:8443"), Some("acl.com"),
                    Some("unknown.com")},
     path : {"/", "/r/x", "/r2", "/s/a.css", "/f", "/p", "/d", "/a", "/dead",
             "/.well-known/acme-challenge/tok"},
     client_ip : {Some(V4(10, 0, 0, 1)), Some(V4(11, 0, 0, 1))},
     auth_header : {None, Some("Basic YWRtaW46c2VjcmV0")}]

NewCtxAny == NewCtxOf(FilterRequests)

NextRequest ==
    \/ NewCtxAny
    \/ RequestFilter
    \/ UpstreamResponds
    \/ FailToProxy
    \/ Logging

SpecRequest == Init /\ [][NextRequest]_vars

(***************************************************************************)
(* The static file server on its own: the specification SpecStatic serves  *)
(* requests while the symlink is re-pointed, files are rewritten and time  *)
(* passes.                                                                 *)
(***************************************************************************)
MaxNow == 30
TickSecs == 15
MaxVersion == 2

StaticBaseDirs == { "/www" }
StaticRequestPaths ==
    { "/s/x.css", "/s", "/s/../secret.txt", "/s/sub/x.css", "/s/nope.css" }
IfModifiedSince == { None, Some(http_date(0)) }

InitStatic ==
    /\ LaterIdle
    /\ EvaluatorsIdle
    /\ ProxyIdle
    /\ PureIdle
    /\ fs_link \in LinkTargets
    /\ fs_files = [f \in FilePaths |-> [body |-> Body(1), mtime |-> 0, version |-> 1]]
    /\ now = 0
    /\ base_dir_cache = EmptyMap
    /\ file_cache = EmptyMap
    /\ st_out = None

\* the age at time t of the FILE_CACHE entry of a path, None without entry
entry_age(fcache, t, path) ==
    IF IsSome(path) /\ IsSome(MapGet(fcache, Unwrap(path)))
    THEN Some(t - Unwrap(MapGet(fcache, Unwrap(path))).cached_at)
    ELSE None

\* one call of serve_static_file for the location /s; st_out keeps the
\* result with the canonical target and the canonical base directory the
\* filesystem had at the call, the If-Modified-Since header of the request
\* and the age the cache entry of the target had
ServeStaticFile ==
    /\ \E base_dir \in StaticBaseDirs, request_path \in StaticRequestPaths,
          ims \in IfModifiedSince :
          \E o \in serve_static_file(fs_link, fs_files, now, base_dir_cache,
                                     file_cache, base_dir, request_path, "/s",
                                     None, ims) :
             /\ base_dir_cache' = o.base_dir_cache
             /\ file_cache' = o.file_cache
             /\ st_out' = Some([target |-> canonicalize(fs_link, fs_files,
                                    static_file_path(fs_link, fs_files, base_dir,
                                                     request_path, "/s")),
                                base |-> canonicalize(fs_link, fs_files,
                                           PathBuf_from(base_dir)),
                                result |-> o.result,
                                ims |-> ims,
                                age |-> entry_age(file_cache, now,
                                           canonicalize(fs_link, fs_files,
                                               static_file_path(fs_link, fs_files, base_dir,
                                                                request_path, "/s")))])
    /\ UNCHANGED <<fs_link, fs_files, now>>
    /\ UNCHANGED <<accVars, dispVars, reloadVars, reqVars, routerVars, fnVars, laterVars>>

\* a deployment re-points the symlink
Relink ==
    /\ \E t \in LinkTargets \ {fs_link} : fs_link' = t
    /\ UNCHANGED <<fs_files, now, base_dir_cache, file_cache, st_out>>
    /\ UNCHANGED <<accVars, dispVars, reloadVars, reqVars, routerVars, fnVars, laterVars>>

\* the files a deployment rewrites in place
WritableFiles == { <<"a", "sub", "x.css">> }

\* a regular file is rewritten
WriteFile ==
    /\ \E f \in WritableFiles :
          /\ fs_files[f].version < MaxVersion
          /\ fs_files' = [fs_files EXCEPT ![f] =
                            [body |-> Body(@.version + 1), mtime |-> now,
                             version |-> @.version + 1]]
    /\ UNCHANGED <<fs_link, now, base_dir_cache, file_cache, st_out>>
    /\ UNCHANGED <<accVars, dispVars, reloadVars, reqVars, routerVars, fnVars, laterVars>>

\* time passes
Tick ==
    /\ now < MaxNow
    /\ now' = now + TickSecs
    /\ UNCHANGED <<fs_link, fs_files, base_dir_cache, file_cache, st_out>>
    /\ UNCHANGED <<accVars, dispVars, reloadVars, reqVars, routerVars, fnVars, laterVars>>

NextStatic ==
    \/ ServeStaticFile
    \/ Relink
    \/ WriteFile
    \/ Tick

SpecStatic == InitStatic /\ [][NextStatic]_vars

(***************************************************************************)
(* Files that disappear: the specification SpecRemoved serves a location   *)
(* and single files while regular files are removed and time passes, for   *)
(* each target of the symlink.  st_out keeps each call with the symlink,   *)
(* the files, the cache and the time it ran with.                          *)
(***************************************************************************)
SingleFilePaths ==
    { "/www/x.css", "/a/sub/x.css", "/a/sub/index.html", "/a/sub", "/a/nope.txt" }

\* the files a deployment removes
RemovableFiles == { <<"a", "sub", "index.html">>, <<"a", "sub", "x.css">> }

\* variant that looks the given path up in the cache before it touches the
\* disk (a mutant)
serve_single_file_cache_first(link, files, t, fcache, file_path, cache_expires, if_modified_since) ==
    LET key == PathBuf_from(file_path)
        cached == MapGet(fcache, key)
        out(result, f) == [result |-> result, file_cache |-> f]
    IN  IF cache_entry_fresh(t, cached)
        THEN { out(build_200_response(Unwrap(cached).body,
                       Unwrap(cached).last_modified, cache_expires), fcache) }
        ELSE IF ~is_file(link, files, key) THEN { out(None, fcache) }
        ELSE { out(build_200_response(files[Unwrap(canonicalize(link, files, key))].body,
                       http_date(files[Unwrap(canonicalize(link, files, key))].mtime),
                       cache_expires), fcache) }

\* serve_single_file: the set of possible outcomes [result, file_cache] of
\* one call at time t
serve_single_file(link, files, t, fcache, file_path, cache_expires, if_modified_since) ==
    LET canonical == canonicalize(link, files, PathBuf_from(file_path))
        out(result, f) == [result |-> result, file_cache |-> f]
    IN  IF ~IsSome(canonical) THEN { out(None, fcache) }
        ELSE IF ~is_file(link, files, Unwrap(canonical)) THEN { out(None, fcache) }
        ELSE
            LET key == Unwrap(canonical)
                cached == MapGet(fcache, key)
                fresh == cache_entry_fresh(t, cached)
                last_modified_str == http_date(files[key].mtime)
            IN  IF fresh THEN
                    IF if_modified_since = Some(Unwrap(cached).last_modified)
                    THEN { out(NotModified(Unwrap(cached).last_modified), fcache) }
                    ELSE { out(build_200_response(Unwrap(cached).body,
                                   Unwrap(cached).last_modified, cache_expires),
                               fcache) }
                ELSE IF if_modified_since = Some(last_modified_str)
                THEN { out(NotModified(last_modified_str), fcache) }
                ELSE { out(build_200_response(files[key].body, last_modified_str,
                                              cache_expires),
                           MapPut(fcache, key,
                                  [body |-> files[key].body,
                                   last_modified |-> last_modified_str,
                                   cached_at |-> t])) }

\* what st_out keeps of a call
served_call(kind, path, result) ==
    Some([kind |-> kind, path |-> path, result |-> result, link |-> fs_link,
          present |-> DOMAIN fs_files, cache |-> file_cache, at |-> now])

\* one call of serve_static_file for the location /s
ServeLocation ==
    /\ \E base_dir \in StaticBaseDirs, request_path \in StaticRequestPaths,
          ims \in IfModifiedSince :
          \E o \in serve_static_file(fs_link, fs_files, now, base_dir_cache,
                                     file_cache, base_dir, request_path, "/s",
                                     None, ims) :
             /\ base_dir_cache' = o.base_dir_cache
             /\ file_cache' = o.file_cache
             /\ st_out' = served_call("serve_static_file",
                                      static_file_path(fs_link, fs_files, base_dir,
                                                       request_path, "/s"),
                                      o.result)
    /\ UNCHANGED <<fs_link, fs_files, now>>
    /\ UNCHANGED <<accVars, dispVars, reloadVars, reqVars, routerVars, fnVars, laterVars>>

\* one call of serve_single_file
ServeSingleFile ==
    /\ \E file_path \in SingleFilePaths, ims \in IfModifiedSince :
          \E o \in serve_single_file(fs_link, fs_files, now, file_cache,
                                     file_path, None, ims) :
             /\ file_cache' = o.file_cache
             /\ st_out' = served_call("serve_single_file", PathBuf_from(file_path),
                                      o.result)
    /\ UNCHANGED <<fs_link, fs_files, now, base_dir_cache>>
    /\ UNCHANGED <<accVars, dispVars, reloadVars, reqVars, routerVars, fnVars, laterVars>>

\* a regular file is removed from the disk
RemoveFile ==
    /\ \E f \in RemovableFiles \cap DOMAIN fs_files :
          fs_files' = [g \in (DOMAIN fs_files) \ {f} |-> fs_files[g]]
    /\ UNCHANGED <<fs_link, now, base_dir_cache, file_cache, st_out>>
    /\ UNCHANGED <<accVars, dispVars, reloadVars, reqVars, routerVars, fnVars, laterVars>>

NextRemoved ==
    \/ ServeLocation
    \/ ServeSingleFile
    \/ RemoveFile
    \/ Tick

SpecRemoved == InitStatic /\ [][NextRemoved]_vars

\* the dispatcher specification
InitDispatch ==
    /\ LaterIdle
    /\ d_cfg \in DOMAIN ConfigPool
    /\ d_req \in Requests
    /\ d_out = None
    /\ chk_in = None
    /\ chk_out = None
    /\ ProxyIdle
    /\ StaticIdle
    /\ PureIdle

\* one call of resolve_request
Resolve ==
    /\ d_out = None
    /\ \E draw \in Draws :
          d_out' = Some(resolve_trace(Snapshots[d_cfg], d_req, draw))
    /\ UNCHANGED <<d_cfg, d_req>>

NextDispatch == Resolve /\ UNCHANGED <<accVars, reloadVars, reqVars, staticVars, routerVars, fnVars, laterVars>>

SpecDispatch == InitDispatch /\ [][NextDispatch]_vars

(***************************************************************************)
(* The access evaluator on its own: the specification SpecAccess draws an  *)
(* access list, a client address and an Authorization header and applies   *)
(* check_access to them.                                                   *)
(***************************************************************************)
MaxRules == 2

\* the client rules: "all", "10.0.0.0/8" (as text and pre-parsed) and the
\* literal "11.0.0.1", with the directives allow, deny and a misspelt one
Rules ==
    { Rule(AddrAll, "allow", None),
      Rule(AddrAll, "deny", None),
      Rule(AddrAll, "Allow", None),
      Rule(Net10, "allow", None),
      Rule(Net10, "deny", Some([ip |-> V4(10, 0, 0, 0), prefix_len |-> 8])),
      Rule(AddrSingle(Some(V4(11, 0, 0, 1))), "allow", None),
      Rule(AddrSingle(Some(V4(11, 0, 0, 1))), "deny", None) }

SeqsUpTo(S, n) == UNION { [1..k -> S] : k \in 0..n }

AuthLists ==
    { <<>>, <<[username |-> "admin", password |-> "secret"]>> }

ClientIps ==
    { None, Some(V4(10, 0, 0, 1)), Some(V4(11, 0, 0, 1)), Some(V6Loopback) }

AccessLists ==
    { [id |-> 1, satisfy |-> s, clients |-> c, auth |-> a] :
        s \in {"any", "all", "ANY"}, c \in SeqsUpTo(Rules, MaxRules), a \in AuthLists }

AccessInputs ==
    [access_list : AccessLists, client_ip : ClientIps, auth_header : AuthHeaders]

InitAccess ==
    /\ LaterIdle
    /\ chk_in \in AccessInputs
    /\ chk_out = None
    /\ d_cfg = 1
    /\ d_req = None
    /\ d_out = None
    /\ ProxyIdle
    /\ StaticIdle
    /\ PureIdle

\* one call check_access(access_list, client_ip, auth_header); ip_ok and
\* auth_ok are the two locals of the function
CheckAccess ==
    /\ chk_out = None
    /\ chk_out' = Some(
          [result  |-> check_access(chk_in.access_list, chk_in.client_ip,
                                    chk_in.auth_header),
           ip_ok   |-> check_ip_access(chk_in.access_list, chk_in.client_ip),
           auth_ok |-> check_auth_access(chk_in.access_list, chk_in.auth_header)])
    /\ UNCHANGED chk_in

NextAccess == CheckAccess /\ UNCHANGED <<dispVars, reloadVars, reqVars, staticVars, routerVars, fnVars, laterVars>>

SpecAccess == InitAccess /\ [][NextAccess]_vars

(***************************************************************************)
(* Claims about the access evaluator (checked under SpecAccess)            *)
(***************************************************************************)

(***************************************************************************)
(* CIDR matching on its own: the specification SpecCidr draws a client     *)
(* address and the text of a rule address and applies ip_matches_cidr and, *)
(* when the text parses, ip_matches_parsed.                                *)
(***************************************************************************)
MaxPrefix == 129

RECURSIVE DecValue(_)
DecValue(s) ==
    IF s = "" THEN 0
    ELSE 10 * DecValue(SubSeq(s, 1, Len(s) - 1)) + Find(Digits, Char(s, Len(s))) - 1

\* str::parse::<u32> on texts of at most 9 digits: an optional '+', then
\* decimal digits
parse_u32(s) ==
    LET t == IF starts_with(s, "+") THEN Tail(s) ELSE s
    IN  IF IsDigits(t) /\ Len(t) <= 9 THEN Some(DecValue(t)) ELSE None

\* the texts between the dots of s, from position i
RECURSIVE split_dots(_, _)
split_dots(s, i) ==
    LET j == FindFrom(s, ".", i)
    IN  IF j = 0 THEN <<SubSeq(s, i, Len(s))>>
        ELSE <<SubSeq(s, i, j - 1)>> \o split_dots(s, j + 1)

V6(o) == [v |-> 6, o |-> o]
V6LinkLocal == V6(<<254, 128, 0, 0, 0, 0, 0, 0, 0, 0, 0, 0, 0, 0, 0, 0>>)
V6LinkLocal1 == V6(<<254, 128, 0, 0, 0, 0, 0, 0, 0, 0, 0, 0, 0, 0, 0, 1>>)
V6HighBit == V6(<<128, 0, 0, 0, 0, 0, 0, 0, 0, 0, 0, 0, 0, 0, 0, 1>>)

\* str::parse::<IpAddr>: four decimal octets without leading zeros, or one
\* of the IPv6 texts the model uses
parse_ip(s) ==
    LET parts == split_dots(s, 1)
        octet_ok(t) ==
            /\ IsDigits(t) /\ Len(t) <= 3
            /\ (Len(t) > 1 => Char(t, 1) # "0")
            /\ DecValue(t) <= 255
    IN  IF s = "::1" THEN Some(V6Loopback)
        ELSE IF s = "fe80::" THEN Some(V6LinkLocal)
        ELSE IF s = "fe80::1" THEN Some(V6LinkLocal1)
        ELSE IF Len(parts) = 4 /\ \A i \in 1..4 : octet_ok(parts[i])
        THEN Some([v |-> 4, o |-> [i \in 1..4 |-> DecValue(parts[i])]])
        ELSE None

\* the address text of a rule as ip_matches_cidr takes it apart: the keyword
\* "all", else split_once('/') and the parse of both sides, else the parse
\* of the whole text
rule_address(text) ==
    LET slash == Find(text, "/")
    IN  IF text = "all" THEN AddrAll
        ELSE IF slash > 0
        THEN AddrCidr(parse_ip(SubSeq(text, 1, slash - 1)),
                      parse_u32(SubSeq(text, slash + 1, Len(text))))
        ELSE AddrSingle(parse_ip(text))

CidrClients ==
    { V4(10, 0, 0, 1), V4(10, 128, 0, 1), V4(11, 0, 0, 1), V4(192, 168, 1, 77),
      V6Loopback, V6LinkLocal1, V6HighBit }

NetworkTexts ==
    { "10.0.0.0", "10.0.0.1", "192.168.1.64", "::1", "fe80::",
      "bad", "10.0.0", "256.0.0.1", "010.0.0.1", "" }

PrefixTexts == { ToString(p) : p \in 0..MaxPrefix } \cup { "", "x", "-1", "8/1", "+8" }

AddressTexts ==
    { n \o "/" \o q : n \in NetworkTexts, q \in PrefixTexts }
        \cup { "all", "10.0.0.1", "::1", "bad" }

InitCidr ==
    /\ LaterIdle
    /\ fn_in \in [ip : CidrClients, address : AddressTexts]
    /\ fn_out = None
    /\ rt_hosts = <<>> /\ rt_req = None /\ rt_out = None
    /\ EvaluatorsIdle
    /\ ProxyIdle
    /\ StaticIdle

\* ip_matches_cidr on the text and, when both sides of a CIDR text parse,
\* ip_matches_parsed on the ParsedCidr made of them
MatchCidr ==
    /\ fn_out = None
    /\ LET cidr == rule_address(fn_in.address)
       IN  fn_out' = Some(
              [text |-> ip_matches_cidr(fn_in.ip, cidr),
               parsed |-> IF cidr.kind = "cidr" /\ IsSome(cidr.net) /\ IsSome(cidr.plen)
                          THEN Some(ip_matches_parsed(fn_in.ip,
                                       [ip |-> Unwrap(cidr.net),
                                        prefix_len |-> Unwrap(cidr.plen)]))
                          ELSE None])
    /\ UNCHANGED fn_in

NextCidr ==
    MatchCidr /\ UNCHANGED <<accVars, dispVars, reloadVars, reqVars, staticVars, routerVars, laterVars>>

SpecCidr == InitCidr /\ [][NextCidr]_vars

(***************************************************************************)
(* Basic authentication on its own: the specification SpecAuth draws an    *)
(* auth list and an Authorization header and applies check_auth_access,    *)
(* and check_access on the list with no client rules.                      *)
(***************************************************************************)
MaxAuth == 2

\* base64 of a byte sequence, STANDARD alphabet with padding: what a client
\* sends
RECURSIVE Base64Encode(_)
Base64Encode(b) ==
    LET ch(v) == Char(B64Alphabet, v + 1)
    IN  IF b = <<>> THEN ""
        ELSE IF Len(b) = 1
        THEN ch(b[1] \div 4) \o ch((b[1] % 4) * 16) \o "=="
        ELSE IF Len(b) = 2
        THEN ch(b[1] \div 4) \o ch((b[1] % 4) * 16 + b[2] \div 16)
             \o ch((b[2] % 16) * 4) \o "="
        ELSE ch(b[1] \div 4) \o ch((b[1] % 4) * 16 + b[2] \div 16)
             \o ch((b[2] % 16) * 4 + b[3] \div 64) \o ch(b[3] % 64)
             \o Base64Encode(SubSeq(b, 4, Len(b)))

\* the Authorization header a client builds from a user name and a password
BasicHeader(username, password) ==
    "Basic " \o Base64Encode(Bytes(username \o ":" \o password))

AuthEntry(username, password) == [username |-> username, password |-> password]

\* an ordinary entry, a password that holds a colon, a user name that holds
\* a colon, and the empty credentials
AuthEntries ==
    { AuthEntry("admin", "secret"), AuthEntry("u", "p:q"),
      AuthEntry("a:b", "c"), AuthEntry("", "") }

\* the password with one character replaced
ChangedPasswords(password) ==
    { SubSeq(password, 1, i - 1) \o "X" \o SubSeq(password, i + 1, Len(password)) :
        i \in 1..Len(password) }

\* headers built from credentials, and headers that are not of that form:
\* other prefixes, text that is not base64, base64 without its padding or
\* with trailing bits, base64 of bytes that are not UTF-8 (0xFF ':'), and
\* base64 of text without a colon
BasicHeaders ==
    { Some(BasicHeader(e.username, e.password)) : e \in AuthEntries }
    \cup { Some(BasicHeader("admin", q)) : q \in ChangedPasswords("secret") }
    \cup { Some(BasicHeader("admin", q)) : q \in {"", "secre", "secret ", "secret:"} }
    \cup { Some(BasicHeader("u", "p")), Some(BasicHeader("a", "b:c")),
           Some(BasicHeader("Admin", "secret")) }
    \cup { None, Some(""), Some("Basic "), Some("Basic"),
           Some("basic YWRtaW46c2VjcmV0"), Some("BASIC YWRtaW46c2VjcmV0"),
           Some("Bearer YWRtaW46c2VjcmV0"), Some("Basic  YWRtaW46c2VjcmV0"),
           Some(" Basic YWRtaW46c2VjcmV0"), Some("YWRtaW46c2VjcmV0"),
           Some("Basic admin:secret"), Some("Basic YWRtaW46c2VjcmV0="),
           Some("Basic YWRtaW46c2VjcmV0 "), Some("Basic dTpwOnE"),
           Some("Basic dTpwOnF="), Some("Basic dTpwOnE=="), Some("Basic /zo="),
           Some("Basic " \o Base64Encode(Bytes("adminsecret"))) }

InitAuth ==
    /\ LaterIdle
    /\ fn_in \in [auth : SeqsUpTo(AuthEntries, MaxAuth), auth_header : BasicHeaders]
    /\ fn_out = None
    /\ rt_hosts = <<>> /\ rt_req = None /\ rt_out = None
    /\ EvaluatorsIdle
    /\ ProxyIdle
    /\ StaticIdle

\* check_auth_access on the list, and check_access on the access list that
\* holds the auth entries and no client rules
CheckAuth ==
    /\ fn_out = None
    /\ LET access_list == [id |-> 1, satisfy |-> "any", clients |-> <<>>,
                           auth |-> fn_in.auth]
       IN  fn_out' = Some(
              [auth_ok |-> check_auth_access(access_list, fn_in.auth_header),
               result  |-> check_access(access_list, None, fn_in.auth_header)])
    /\ UNCHANGED fn_in

NextAuth ==
    CheckAuth /\ UNCHANGED <<accVars, dispVars, reloadVars, reqVars, staticVars, routerVars, laterVars>>

SpecAuth == InitAuth /\ [][NextAuth]_vars

(***************************************************************************)
(* The router on its own: the specification SpecRouter draws a host list   *)
(* (the locations of the first host in every order, each host enabled or   *)
(* not), a Host header and a path, builds the router and resolves.         *)
(***************************************************************************)
MaxLocations == 3

\* a proxy location with an upstream of its own, 10.0.1.<k>
RouterLocation(path, match_type, k) ==
    [LocationDefaults EXCEPT !.path = path, !.match_type = match_type,
        !.upstreams = <<Upstream("10.0.1." \o ToString(k), 8080, 1)>>]

\* two prefixes, an exact path, two regexes that both match /api/x, and a
\* regex that does not compile
RouterLocations ==
    { RouterLocation("/", "prefix", 1),
      RouterLocation("/api", "prefix", 2),
      RouterLocation("/api", "exact", 3),
      RouterLocation("^/api", "regex", 4),
      RouterLocation("pi", "regex", 5),
      RouterLocation("(", "regex", 6) }

\* the location lists: up to MaxLocations distinct locations, in any order
RouterLocationLists ==
    { q \in SeqsUpTo(RouterLocations, MaxLocations) :
        \A i, j \in DOMAIN q : i # j => q[i] # q[j] }

StreamPort(port) ==
    [port |-> port, protocol |-> "tcp",
     upstreams |-> <<Upstream("10.0.3.1", port, 1)>>,
     balance_method |-> "round_robin"]

RouterHostA(locations, enabled) ==
    [HostDefaults EXCEPT !.id = 1, !.domains = <<"Ex.com">>,
        !.ssl = Some([ssl_type |-> "custom", force_https |-> FALSE,
                      cert_path |-> Some("/certs/site.crt"),
                      key_path |-> Some("/certs/site.key")]),
        !.locations = locations, !.stream_ports = <<StreamPort(5432)>>,
        !.enabled = enabled]

\* a second host that shares the domain ex.com with the first
RouterHostB(enabled) ==
    [HostDefaults EXCEPT !.id = 2, !.domains = <<"ex.com", "B.com">>,
        !.ssl = Some([ssl_type |-> "letsencrypt", force_https |-> FALSE,
                      cert_path |-> None, key_path |-> None]),
        !.locations = <<RouterLocation("/", "prefix", 7)>>,
        !.stream_ports = <<StreamPort(6000)>>, !.enabled = enabled]

RouterHostLists ==
    UNION { { <<RouterHostA(l, e)>>,
              <<RouterHostA(l, e), RouterHostB(FALSE)>>,
              <<RouterHostB(FALSE), RouterHostA(l, e)>>,
              <<RouterHostA(l, e), RouterHostB(TRUE)>> } :
            l \in RouterLocationLists, e \in BOOLEAN }

RouterRequests ==
    [host : {"Ex.COM:8080", "b.com:1:2"}, path : {"/api", "/api/x", "/x"}]

\* the configuration the host list is loaded into
RouterConfig(hosts) ==
    [global |-> GlobalDefault, hosts |-> hosts, access_lists |-> EmptyMap]

InitRouter ==
    /\ LaterIdle
    /\ rt_hosts \in RouterHostLists
    /\ rt_req \in RouterRequests
    /\ rt_out = None
    /\ fn_in = None /\ fn_out = None
    /\ EvaluatorsIdle
    /\ ProxyIdle
    /\ StaticIdle

\* the router and the selectors SharedState::build makes of the host list,
\* then Router::resolve and the selector lookup of resolve_request
RouteRequest ==
    /\ rt_out = None
    /\ LET router == Router_build(rt_hosts)
           location_lbs == location_lbs_from(rt_hosts, 1, EmptyMap)
           resolved == Router_resolve(router, rt_req.host, rt_req.path)
       IN  rt_out' = Some(
              [resolved |-> resolved,
               lb |-> IF IsSome(resolved) /\ IsSome(Unwrap(resolved).loc_idx)
                      THEN MapGet(location_lbs,
                                  <<Unwrap(resolved).host.id,
                                    Unwrap(Unwrap(resolved).loc_idx)>>)
                      ELSE None])
    /\ UNCHANGED <<rt_hosts, rt_req>>

NextRouter ==
    RouteRequest /\ UNCHANGED <<accVars, dispVars, reloadVars, reqVars, staticVars, fnVars, laterVars>>

SpecRouter == InitRouter /\ [][NextRouter]_vars

(***************************************************************************)
(* Host files with one id: the specification SpecSameId builds the router  *)
(* and the selectors of two enabled hosts with different domains that      *)
(* carry the same id or different ones, in both orders, and routes a       *)
(* request.  AppConfig::load takes the id from the content of each file    *)
(* and does not compare ids.                                               *)
(***************************************************************************)
\* a second host on its own domain; its id is 1 like the first host's, or 2
RouterHostC(id) ==
    [HostDefaults EXCEPT !.id = id, !.domains = <<"B.com">>,
        !.locations = <<RouterLocation("/", "prefix", 7),
                        RouterLocation("/api", "exact", 8)>>]

SameIdHostLists ==
    UNION { { <<RouterHostA(l, TRUE), RouterHostC(id)>>,
              <<RouterHostC(id), RouterHostA(l, TRUE)>> } :
            l \in RouterLocationLists, id \in {1, 2} }

InitSameId ==
    /\ LaterIdle
    /\ rt_hosts \in SameIdHostLists
    /\ rt_req \in RouterRequests
    /\ rt_out = None
    /\ fn_in = None /\ fn_out = None
    /\ EvaluatorsIdle
    /\ ProxyIdle
    /\ StaticIdle

SpecSameId == InitSameId /\ [][NextRouter]_vars

(***************************************************************************)
(* FILE_CACHE under concurrent calls.  serve_static_file and               *)
(* serve_single_file are async functions on a multi-threaded runtime, and  *)
(* every DashMap call (insert, len, iter().next(), remove) is a step of    *)
(* its own.  The cache is followed as a set of named keys plus a count of  *)
(* the entries whose keys no call of the run asks for; an entry picked as  *)
(* an eviction victim out of that count gets a name when it is picked.     *)
(***************************************************************************)
MaxCalls == 3

\* the canonical paths the calls ask for
CacheFiles == {"/www/a.css", "/www/b.css"}

\* the cache after that many distinct files were served one after another
WarmEntries == {0, FILE_CACHE_MAX - 1, FILE_CACHE_MAX}

\* FILE_CACHE.len()
FILE_CACHE_len(keys, others) == Cardinality(keys) + others

\* the eviction test of serve_static_file after its insert
over_cap(keys, others) == FILE_CACHE_len(keys, others) > FILE_CACHE_MAX

\* the name an entry gets when it is picked out of the unnamed ones
victim_name(n) == "entry-" \o ToString(n)

InitCache ==
    /\ HashIdle
    /\ BootIdle
    /\ EvaluatorsIdle
    /\ ProxyIdle
    /\ StaticIdle
    /\ PureIdle
    /\ LogIdle
    /\ StreamIdle
    /\ TcpIdle
    /\ fc_keys = {}
    /\ fc_others \in WarmEntries
    /\ fc_task = [t \in CacheTasks |-> TaskIdle]
    /\ fc_calls = 0
    /\ fc_picks = 0

\* a call whose cache lookup finds a fresh entry: it answers from the entry
CacheHit(t) ==
    /\ fc_task[t].pc = "idle"
    /\ fc_calls < MaxCalls
    /\ \E kind \in {"serve_static_file", "serve_single_file"}, key \in fc_keys \cap CacheFiles :
          fc_calls' = fc_calls + 1
    /\ UNCHANGED <<fc_keys, fc_others, fc_task, fc_picks>>
    /\ UNCHANGED <<coreVars, logVars, streamVars, tcpVars, hashVars, bootVars>>

\* a call whose cache lookup finds no entry, or a stale one: it goes on to
\* read the file
CacheMiss(t) ==
    /\ fc_task[t].pc = "idle"
    /\ fc_calls < MaxCalls
    /\ \E kind \in {"serve_static_file", "serve_single_file"}, key \in CacheFiles :
          fc_task' = [fc_task EXCEPT ![t] =
                         [pc |-> "insert", kind |-> kind, key |-> key, victim |-> None]]
    /\ fc_calls' = fc_calls + 1
    /\ UNCHANGED <<fc_keys, fc_others, fc_picks>>
    /\ UNCHANGED <<coreVars, logVars, streamVars, tcpVars, hashVars, bootVars>>

\* FILE_CACHE.insert; serve_single_file builds its response right after it
CacheInsert(t) ==
    /\ fc_task[t].pc = "insert"
    /\ fc_keys' = fc_keys \cup {fc_task[t].key}
    /\ fc_task' = [fc_task EXCEPT ![t] =
                      IF fc_task[t].kind = "serve_single_file" THEN TaskIdle
                      ELSE [fc_task[t] EXCEPT !.pc = "len"]]
    /\ UNCHANGED <<fc_others, fc_calls, fc_picks>>
    /\ UNCHANGED <<coreVars, logVars, streamVars, tcpVars, hashVars, bootVars>>

\* serve_static_file: if FILE_CACHE.len() > 1024
CacheLen(t) ==
    /\ fc_task[t].pc = "len"
    /\ fc_task' = [fc_task EXCEPT ![t] =
                      IF over_cap(fc_keys, fc_others)
                      THEN [fc_task[t] EXCEPT !.pc = "pick"]
                      ELSE TaskIdle]
    /\ UNCHANGED <<fc_keys, fc_others, fc_calls, fc_picks>>
    /\ UNCHANGED <<coreVars, logVars, streamVars, tcpVars, hashVars, bootVars>>

\* serve_static_file: FILE_CACHE.iter().next() finds a named entry
CachePickNamed(t) ==
    /\ fc_task[t].pc = "pick"
    /\ \E key \in fc_keys :
          fc_task' = [fc_task EXCEPT ![t] =
                         [fc_task[t] EXCEPT !.pc = "remove", !.victim = Some(key)]]
    /\ UNCHANGED <<fc_keys, fc_others, fc_calls, fc_picks>>
    /\ UNCHANGED <<coreVars, logVars, streamVars, tcpVars, hashVars, bootVars>>

\* serve_static_file: FILE_CACHE.iter().next() finds one of the other entries
CachePickOther(t) ==
    /\ fc_task[t].pc = "pick"
    /\ fc_others > 0
    /\ fc_others' = fc_others - 1
    /\ fc_picks' = fc_picks + 1
    /\ fc_keys' = fc_keys \cup {victim_name(fc_picks + 1)}
    /\ fc_task' = [fc_task EXCEPT ![t] =
                      [fc_task[t] EXCEPT !.pc = "remove",
                                         !.victim = Some(victim_name(fc_picks + 1))]]
    /\ UNCHANGED fc_calls
    /\ UNCHANGED <<coreVars, logVars, streamVars, tcpVars, hashVars, bootVars>>

\* serve_static_file: FILE_CACHE.remove(&key), then the response
CacheRemove(t) ==
    /\ fc_task[t].pc = "remove"
    /\ fc_keys' = fc_keys \ {Unwrap(fc_task[t].victim)}
    /\ fc_task' = [fc_task EXCEPT ![t] = TaskIdle]
    /\ UNCHANGED <<fc_others, fc_calls, fc_picks>>
    /\ UNCHANGED <<coreVars, logVars, streamVars, tcpVars, hashVars, bootVars>>

NextCache ==
    \/ \E t \in CacheTasks : CacheHit(t)
    \/ \E t \in CacheTasks : CacheMiss(t)
    \/ \E t \in CacheTasks : CacheInsert(t)
    \/ \E t \in CacheTasks : CacheLen(t)
    \/ \E t \in CacheTasks : CachePickNamed(t)
    \/ \E t \in CacheTasks : CachePickOther(t)
    \/ \E t \in CacheTasks : CacheRemove(t)

SpecCache == InitCache /\ [][NextCache]_vars

(***************************************************************************)
(* parse_cache_duration and the Cache-Control header of                    *)
(* build_200_response on their own.  A cache_expires text is put together  *)
(* from leading whitespace, a sign, a number text, a gap, a suffix and      *)
(* trailing whitespace.                                                    *)
(***************************************************************************)
NumberTexts ==
    {"", "0", "7", "30", "007", "3600", "1.5", "abc",
     "213503982334601", "213503982334602",
     "5124095576030431", "5124095576030432",
     "307445734561825860", "307445734561825861",
     "999999999999999999",
     "18446744073709551615", "18446744073709551616"}

SuffixTexts == {"", "s", "m", "h", "d", "dm", "x", "D"}

DurationInputs ==
    [lead : {"", " "}, sign : {"", "+", "-"}, number : NumberTexts,
     gap : {"", " "}, suffix : SuffixTexts, trail : {"", "\t"},
     present : BOOLEAN]

\* the cache_expires text of an input
duration_text(in) ==
    in.lead \o in.sign \o in.number \o in.gap \o in.suffix \o in.trail

InitDuration ==
    /\ LaterIdle
    /\ EvaluatorsIdle
    /\ ProxyIdle
    /\ StaticIdle
    /\ rt_hosts = <<>> /\ rt_req = None /\ rt_out = None
    /\ fn_in \in DurationInputs
    /\ fn_out = None

\* parse_cache_duration(text), and build_200_response for a location with
\* that cache_expires (or with none)
ParseCacheDuration ==
    /\ fn_out = None
    /\ fn_out' = Some([seconds |-> parse_cache_duration(duration_text(fn_in)),
                       response |-> Unwrap(build_200_response(Body(1), http_date(0),
                                       IF fn_in.present
                                       THEN Some(duration_text(fn_in)) ELSE None))])
    /\ UNCHANGED fn_in

NextDuration ==
    ParseCacheDuration /\ UNCHANGED <<accVars, dispVars, reloadVars, reqVars, staticVars, routerVars, laterVars>>

SpecDuration == InitDuration /\ [][NextDuration]_vars

(***************************************************************************)
(* error_pages.rs: the cascading lookup of serve_error_page on a directory *)
(* of error pages.  A path of the directory is absent, a file that cannot  *)
(* be read, or a file with a body.                                         *)
(***************************************************************************)
Absent == [kind |-> "absent"]
Unreadable == [kind |-> "unreadable"]
PageFile(body) == [kind |-> "file", body |-> body]

\* PathBuf::from(error_pages_dir).join(<sub>).join("<code>.html")
error_page_path(error_pages_dir, sub, status_code) ==
    error_pages_dir \o "/" \o sub \o "/" \o ToString(status_code) \o ".html"

ErrorPageResponse(status_code, body) ==
    [status |-> status_code, content_type |-> "text/html; charset=utf-8",
     content_length |-> Len(body), body |-> body]

\* try_serve_error_file: None unless the path is a file that can be read
try_serve_error_file(files, path, status_code) ==
    IF path \notin DOMAIN files \/ files[path].kind = "absent" THEN None
    ELSE IF files[path].kind = "unreadable" THEN None
    ELSE Some(ErrorPageResponse(status_code, files[path].body))

status_reason(code) ==
    CASE code = 400 -> "Bad Request"
      [] code = 401 -> "Unauthorized"
      [] code = 403 -> "Forbidden"
      [] code = 404 -> "Not Found"
      [] code = 405 -> "Method Not Allowed"
      [] code = 408 -> "Request Timeout"
      [] code = 413 -> "Payload Too Large"
      [] code = 429 -> "Too Many Requests"
      [] code = 500 -> "Internal Server Error"
      [] code = 502 -> "Bad Gateway"
      [] code = 503 -> "Service Unavailable"
      [] code = 504 -> "Gateway Timeout"
      [] OTHER -> "Error"

builtin_error_page(status_code) ==
    ErrorPageResponse(status_code,
        "<!DOCTYPE html>\n<html><head><title>" \o ToString(status_code) \o " "
        \o status_reason(status_code) \o "</title></head>\n<body>\n<center><h1>"
        \o ToString(status_code) \o " " \o status_reason(status_code)
        \o "</h1></center>\n<hr><center>pingora-manager</center>\n</body></html>\n")

\* the host step of the lookup
error_page_of_host(files, error_pages_dir, status_code, host_id) ==
    IF IsSome(host_id)
    THEN try_serve_error_file(files,
             error_page_path(error_pages_dir, "host-" \o ToString(Unwrap(host_id)),
                             status_code), status_code)
    ELSE None

\* the group step of the lookup
error_page_of_group(files, error_pages_dir, status_code, group_id) ==
    IF IsSome(group_id)
    THEN try_serve_error_file(files,
             error_page_path(error_pages_dir, "group-" \o ToString(Unwrap(group_id)),
                             status_code), status_code)
    ELSE None

\* the lookup with the group step before the host step (a mutant)
serve_error_page_group_first(files, error_pages_dir, status_code, host_id, group_id) ==
    LET host == error_page_of_host(files, error_pages_dir, status_code, host_id)
        group == error_page_of_group(files, error_pages_dir, status_code, group_id)
        global == try_serve_error_file(files,
                      error_page_path(error_pages_dir, "global", status_code), status_code)
    IN  IF IsSome(group) THEN Unwrap(group)
        ELSE IF IsSome(host) THEN Unwrap(host)
        ELSE IF IsSome(global) THEN Unwrap(global)
        ELSE builtin_error_page(status_code)

\* serve_error_page on the files of the directory
serve_error_page_from(files, error_pages_dir, status_code, host_id, group_id) ==
    LET host == error_page_of_host(files, error_pages_dir, status_code, host_id)
        group == error_page_of_group(files, error_pages_dir, status_code, group_id)
        global == try_serve_error_file(files,
                      error_page_path(error_pages_dir, "global", status_code), status_code)
    IN  IF IsSome(host) THEN Unwrap(host)
        ELSE IF IsSome(group) THEN Unwrap(group)
        ELSE IF IsSome(global) THEN Unwrap(global)
        ELSE builtin_error_page(status_code)

\* the status codes the callbacks ask error pages for
ErrorCodes == {403, 404, 500, 502, 503}

ErrorPagesDir == "/data/error-pages"

\* the files the lookups of host 1 and group 7 can meet
ErrorPageStates(body) == {Absent, Unreadable, PageFile(body)}

ErrorPageDirs ==
    { [p \in {error_page_path(ErrorPagesDir, "host-1", code),
              error_page_path(ErrorPagesDir, "group-7", code),
              error_page_path(ErrorPagesDir, "global", code)} |->
          IF p = error_page_path(ErrorPagesDir, "host-1", code) THEN h
          ELSE IF p = error_page_path(ErrorPagesDir, "group-7", code) THEN g
          ELSE a] :
        code \in {404, 502}, h \in ErrorPageStates("host page"),
        g \in ErrorPageStates("group page"), a \in ErrorPageStates("global page") }

ErrorPageInputs ==
    [files : ErrorPageDirs, status_code : ErrorCodes,
     host_id : {None, Some(1), Some(2)}, group_id : {None, Some(7)}]

InitErrorPage ==
    /\ LaterIdle
    /\ EvaluatorsIdle
    /\ ProxyIdle
    /\ StaticIdle
    /\ rt_hosts = <<>> /\ rt_req = None /\ rt_out = None
    /\ fn_in \in ErrorPageInputs
    /\ fn_out = None

\* error_pages::serve_error_page
ServeErrorPage ==
    /\ fn_out = None
    /\ fn_out' = Some(serve_error_page_from(fn_in.files, ErrorPagesDir,
                          fn_in.status_code, fn_in.host_id, fn_in.group_id))
    /\ UNCHANGED fn_in

NextErrorPage ==
    ServeErrorPage /\ UNCHANGED <<accVars, dispVars, reloadVars, reqVars, staticVars, routerVars, laterVars>>

SpecErrorPage == InitErrorPage /\ [][NextErrorPage]_vars

(***************************************************************************)
(* config.rs: AppConfig::load on the files of the configs directory.  A    *)
(* file is absent, holds bytes that are not UTF-8 (read_to_string fails),  *)
(* holds text that does not deserialize (serde_yaml::from_str fails), or   *)
(* holds a value.  The host files come in the order glob yields them.      *)
(***************************************************************************)
MaxHostFiles == 2

NotUtf8 == [kind |-> "not_utf8"]
NotYaml == [kind |-> "not_yaml"]
Yaml(value) == [kind |-> "ok", value |-> value]

\* std::fs::read_to_string: Err (None) on bytes that are not UTF-8
read_to_string(file) == IF file.kind = "not_utf8" THEN None ELSE Some(file)

\* serde_yaml::from_str: Err (None) on text that does not deserialize
from_str(text) == IF text.kind = "not_yaml" THEN None ELSE Some(text.value)

\* read_to_string(..)? then from_str(..)?: None when either fails
read_yaml(file) ==
    IF IsSome(read_to_string(file)) THEN from_str(Unwrap(read_to_string(file)))
    ELSE None

\* load_glob from the i-th file: the items and the files logged as failed
\* to parse, None when a file cannot be read
RECURSIVE load_glob(_, _)
load_glob(files, i) ==
    IF i > Len(files) THEN Some([items |-> <<>>, logged |-> <<>>])
    ELSE LET rest == load_glob(files, i + 1)
         IN  IF ~IsSome(read_to_string(files[i])) THEN None
             ELSE IF ~IsSome(rest) THEN None
             ELSE IF ~IsSome(from_str(files[i]))
             THEN Some([items |-> Unwrap(rest).items,
                        logged |-> <<i>> \o Unwrap(rest).logged])
             ELSE Some([items |-> <<Unwrap(from_str(files[i]))>> \o Unwrap(rest).items,
                        logged |-> Unwrap(rest).logged])

\* access_lists_vec.into_iter().map(|a| (a.id, a)).collect()
RECURSIVE collect_access_lists(_, _)
collect_access_lists(lists, n) ==
    IF n = 0 THEN EmptyMap
    ELSE MapPut(collect_access_lists(lists, n - 1), lists[n].id, lists[n])

\* AppConfig::load: None for Err, else the configuration and the host files
\* logged as failed to parse
AppConfig_load_from(dir) ==
    LET global == IF dir.global.kind = "absent" THEN Some(StartupDefaults.global)
                  ELSE read_yaml(dir.global)
        hosts == load_glob(dir.hosts, 1)
        lists == IF dir.access_lists.kind = "absent" THEN Some(<<>>)
                 ELSE read_yaml(dir.access_lists)
    IN  IF ~IsSome(global) \/ ~IsSome(hosts) \/ ~IsSome(lists) THEN None
        ELSE Some([config |-> [global |-> Unwrap(global),
                               hosts |-> Unwrap(hosts).items,
                               access_lists |->
                                   collect_access_lists(Unwrap(lists), Len(Unwrap(lists)))],
                   logged |-> Unwrap(hosts).logged])

\* the states of a host file
HostFiles == {NotUtf8, NotYaml, Yaml(HostExample), Yaml(HostSecure)}

ConfigDirs ==
    [global : {Absent, NotUtf8, NotYaml, Yaml(GlobalMoved)},
     access_lists : {Absent, NotUtf8, NotYaml, Yaml(<<AclDenyAll, AclAuth>>)},
     hosts : SeqsUpTo(HostFiles, MaxHostFiles)]

InitLoad ==
    /\ LaterIdle
    /\ EvaluatorsIdle
    /\ ProxyIdle
    /\ StaticIdle
    /\ rt_hosts = <<>> /\ rt_req = None /\ rt_out = None
    /\ fn_in \in ConfigDirs
    /\ fn_out = None

\* AppConfig::load(configs_dir)
LoadConfig ==
    /\ fn_out = None
    /\ fn_out' = Some([result |-> AppConfig_load_from(fn_in)])
    /\ UNCHANGED fn_in

NextLoad ==
    LoadConfig /\ UNCHANGED <<accVars, dispVars, reloadVars, reqVars, staticVars, routerVars, laterVars>>

SpecLoad == InitLoad /\ [][NextLoad]_vars

(***************************************************************************)
(* log_writer.rs: the unbounded channel of log entries and run_log_writer, *)
(* one loop iteration per step.  The specification SpecLog lets the        *)
(* callbacks send entries for three paths, one of which cannot be opened,  *)
(* and lets every sender be dropped.                                       *)
(***************************************************************************)
MaxQueue == 2

\* the count at which run_log_writer flushes every writer
FLUSH_COUNT == 64

\* OpenOptions::new().create(true).append(true).open(path), after
\* create_dir_all of the parent: whether it succeeds
open_succeeds(path) == ~starts_with(path, "/proc/")

\* the count of failed opens of a path, kept up to "two or more"
failed_open(failures, path) ==
    [failures EXCEPT ![path] = IF @ < 2 THEN @ + 1 ELSE @]

\* the Vacant arm of the writer lookup: the path has no writer, so the file
\* is opened
opens_file(writers, failures, path) == path \notin writers

InitLog ==
    /\ HashIdle
    /\ BootIdle
    /\ EvaluatorsIdle
    /\ ProxyIdle
    /\ StaticIdle
    /\ PureIdle
    /\ CacheIdle
    /\ StreamIdle
    /\ TcpIdle
    /\ lq_queue = <<>>
    /\ lq_closed = FALSE
    /\ lw_pc = "running"
    /\ lw_writers = {}
    /\ lw_dirty = {}
    /\ lw_count = 0
    /\ lw_unflushed = 0
    /\ lw_failed_opens = [p \in LogPaths |-> 0]

\* ctx.log_sender.send(LogEntry { file_path, line }) in logging(): it never
\* waits
LogSend ==
    /\ ~lq_closed
    /\ Len(lq_queue) < MaxQueue
    /\ \E path \in LogPaths : lq_queue' = Append(lq_queue, path)
    /\ UNCHANGED <<lq_closed, lw_pc, lw_writers, lw_dirty, lw_count, lw_unflushed,
                   lw_failed_opens>>
    /\ UNCHANGED <<coreVars, cacheVars, streamVars, tcpVars, hashVars, bootVars>>

\* the last LogSender is dropped
LogClose ==
    /\ ~lq_closed
    /\ lq_closed' = TRUE
    /\ UNCHANGED <<lq_queue, lw_pc, lw_writers, lw_dirty, lw_count, lw_unflushed,
                   lw_failed_opens>>
    /\ UNCHANGED <<coreVars, cacheVars, streamVars, tcpVars, hashVars, bootVars>>

\* run_log_writer: rx.recv() yields an entry whose file cannot be opened
LogOpenFails ==
    /\ lw_pc = "running"
    /\ lq_queue # <<>>
    /\ opens_file(lw_writers, lw_failed_opens, Head(lq_queue))
    /\ ~open_succeeds(Head(lq_queue))
    /\ lq_queue' = Tail(lq_queue)
    /\ lw_failed_opens' = failed_open(lw_failed_opens, Head(lq_queue))
    /\ UNCHANGED <<lq_closed, lw_pc, lw_writers, lw_dirty, lw_count, lw_unflushed>>
    /\ UNCHANGED <<coreVars, cacheVars, streamVars, tcpVars, hashVars, bootVars>>

\* run_log_writer: rx.recv() yields an entry, its line is written to the
\* writer of its path (opened when there is none) and, at 64 written
\* entries, every writer is flushed
LogWrite ==
    /\ lw_pc = "running"
    /\ lq_queue # <<>>
    /\ \/ ~opens_file(lw_writers, lw_failed_opens, Head(lq_queue))
          /\ Head(lq_queue) \in lw_writers
       \/ opens_file(lw_writers, lw_failed_opens, Head(lq_queue))
          /\ open_succeeds(Head(lq_queue))
    /\ lq_queue' = Tail(lq_queue)
    /\ lw_writers' = lw_writers \cup {Head(lq_queue)}
    /\ IF lw_count + 1 >= FLUSH_COUNT
       THEN lw_dirty' = {} /\ lw_unflushed' = 0 /\ lw_count' = 0
       ELSE /\ lw_dirty' = lw_dirty \cup {Head(lq_queue)}
            /\ lw_unflushed' = lw_unflushed + 1
            /\ lw_count' = lw_count + 1
    /\ UNCHANGED <<lq_closed, lw_pc, lw_failed_opens>>
    /\ UNCHANGED <<coreVars, cacheVars, streamVars, tcpVars, hashVars, bootVars>>

\* run_log_writer: the 500 ms sleep ends before an entry arrives
LogIdleFlush ==
    /\ lw_pc = "running"
    /\ lq_queue = <<>> /\ ~lq_closed
    /\ lw_dirty' = {} /\ lw_unflushed' = 0 /\ lw_count' = 0
    /\ UNCHANGED <<lq_queue, lq_closed, lw_pc, lw_writers, lw_failed_opens>>
    /\ UNCHANGED <<coreVars, cacheVars, streamVars, tcpVars, hashVars, bootVars>>

\* run_log_writer: rx.recv() yields None, the loop ends and every writer
\* is flushed
LogTerminate ==
    /\ lw_pc = "running"
    /\ lq_queue = <<>> /\ lq_closed
    /\ lw_pc' = "terminated"
    /\ lw_dirty' = {} /\ lw_unflushed' = 0
    /\ UNCHANGED <<lq_queue, lq_closed, lw_writers, lw_count, lw_failed_opens>>
    /\ UNCHANGED <<coreVars, cacheVars, streamVars, tcpVars, hashVars, bootVars>>

NextLog ==
    \/ LogSend
    \/ LogClose
    \/ LogOpenFails
    \/ LogWrite
    \/ LogIdleFlush
    \/ LogTerminate

SpecLog == InitLog /\ [][NextLog]_vars

\* the writer task is polled whenever an entry is in the channel or the
\* channel is closed, and its sleep ends when no entry arrives for 500 ms
SpecLogLive ==
    /\ SpecLog
    /\ WF_vars(LogOpenFails) /\ WF_vars(LogWrite)
    /\ WF_vars(LogIdleFlush) /\ WF_vars(LogTerminate)

(***************************************************************************)
(* streams.rs: run_stream_proxy for one stream port, from the first        *)
(* accept on, and the proxy_tcp_stream tasks it spawns.  The               *)
(* specification SpecStream takes a port with zero to three upstreams.     *)
(***************************************************************************)
MaxConns == 4

StreamUpstreams ==
    << [server |-> "10.0.0.1", port |-> 5432],
       [server |-> "db.internal", port |-> 5432],
       [server |-> "10.0.0.1", port |-> 6432] >>

\* a StreamPortConfig
StreamPortConfig(port, upstreams) ==
    [port |-> port, protocol |-> "tcp", upstreams |-> upstreams,
     balance_method |-> "round_robin"]

StreamPorts ==
    {StreamPortConfig(15432, SubSeq(StreamUpstreams, 1, n)) : n \in 0..Len(StreamUpstreams)}

\* format!("{}:{}", upstream.server, upstream.port)
upstream_addr(upstream) == upstream.server \o ":" \o ToString(upstream.port)

\* a selection that ignores the index and takes the first upstream (a
\* mutant)
select_first(upstream_index, upstreams) == upstreams[1]

\* config.upstreams[upstream_index % config.upstreams.len()], with Vec
\* indices from 0 and sequence indices from 1
select_upstream(upstream_index, upstreams) ==
    upstreams[(upstream_index % Len(upstreams)) + 1]

\* an accepted connection: the address it is dialed to, if any, and where
\* its proxy_tcp_stream task is
Conn(target, state) == [target |-> target, state |-> state]

InitStream ==
    /\ HashIdle
    /\ BootIdle
    /\ EvaluatorsIdle
    /\ ProxyIdle
    /\ StaticIdle
    /\ PureIdle
    /\ CacheIdle
    /\ LogIdle
    /\ TcpIdle
    /\ sp_pc = "accept"
    /\ sp_config \in {Some(c) : c \in StreamPorts}
    /\ sp_index = 0
    /\ sp_conns = <<>>

\* one turn of the loop of run_stream_proxy: accept() yields a connection;
\* with no upstream it is dropped, else the next upstream is selected, the
\* index advances and a task is spawned to dial it
StreamAccept ==
    /\ sp_pc = "accept"
    /\ Len(sp_conns) < MaxConns
    /\ IF Unwrap(sp_config).upstreams = <<>>
       THEN /\ sp_conns' = Append(sp_conns, Conn(None, "dropped"))
            /\ UNCHANGED sp_index
       ELSE /\ sp_conns' = Append(sp_conns,
                Conn(Some(upstream_addr(select_upstream(sp_index, Unwrap(sp_config).upstreams))),
                     "dialing"))
            /\ sp_index' = sp_index + 1
    /\ UNCHANGED <<sp_pc, sp_config>>
    /\ UNCHANGED <<coreVars, cacheVars, logVars, tcpVars, hashVars, bootVars>>

\* accept() returns an error: run_stream_proxy returns it and the port is
\* served no more; the tasks spawned before go on
StreamAcceptFails ==
    /\ sp_pc = "accept"
    /\ sp_pc' = "failed"
    /\ UNCHANGED <<sp_config, sp_index, sp_conns>>
    /\ UNCHANGED <<coreVars, cacheVars, logVars, tcpVars, hashVars, bootVars>>

\* proxy_tcp_stream: TcpStream::connect(upstream_addr) succeeds
StreamDialOk(i) ==
    /\ sp_conns[i].state = "dialing"
    /\ sp_conns' = [sp_conns EXCEPT ![i].state = "open"]
    /\ UNCHANGED <<sp_pc, sp_config, sp_index>>
    /\ UNCHANGED <<coreVars, cacheVars, logVars, tcpVars, hashVars, bootVars>>

\* proxy_tcp_stream: TcpStream::connect(upstream_addr) fails; the task logs
\* the error and ends, which drops the client connection
StreamDialFails(i) ==
    /\ sp_conns[i].state = "dialing"
    /\ sp_conns' = [sp_conns EXCEPT ![i].state = "failed"]
    /\ UNCHANGED <<sp_pc, sp_config, sp_index>>
    /\ UNCHANGED <<coreVars, cacheVars, logVars, tcpVars, hashVars, bootVars>>

\* proxy_tcp_stream: one direction ends, by end of stream or by an error,
\* and the task ends
StreamClose(i) ==
    /\ sp_conns[i].state = "open"
    /\ sp_conns' = [sp_conns EXCEPT ![i].state = "closed"]
    /\ UNCHANGED <<sp_pc, sp_config, sp_index>>
    /\ UNCHANGED <<coreVars, cacheVars, logVars, tcpVars, hashVars, bootVars>>

NextStream ==
    \/ StreamAccept
    \/ StreamAcceptFails
    \/ \E i \in DOMAIN sp_conns : StreamDialOk(i)
    \/ \E i \in DOMAIN sp_conns : StreamDialFails(i)
    \/ \E i \in DOMAIN sp_conns : StreamClose(i)

SpecStream == InitStream /\ [][NextStream]_vars

(***************************************************************************)
(* streams.rs: proxy_tcp_stream for one connection after the connect: the  *)
(* two copy loops under tokio::select!, one step per await.  A copy loop   *)
(* is named by the end it reads from.  The specification SpecTcp lets each *)
(* peer send a few bytes, close its sending side or fail.                  *)
(***************************************************************************)
MaxBytes == 2

TcpBytes == {1, 2}

\* vec![0u8; 8192]
BUF_SIZE == 8192

\* the outcome of a copy loop that ended
ended(d) == d.pc \in {"done", "failed"}

\* a join of the two loops: the function returns when both have ended (a
\* mutant)
join_ready(dirs) == \A s \in Sides : ended(dirs[s])

\* tokio::select!: the function returns when one of the two loops has ended
select_ready(dirs) == \E s \in Sides : ended(dirs[s])

\* the state of the connection after a step of a copy loop; at the return
\* both sockets are dropped
after_poll(dirs) == IF select_ready(dirs) THEN "terminated" ELSE "running"

InitTcp ==
    /\ HashIdle
    /\ BootIdle
    /\ EvaluatorsIdle
    /\ ProxyIdle
    /\ StaticIdle
    /\ PureIdle
    /\ CacheIdle
    /\ LogIdle
    /\ StreamIdle
    /\ tp_peer = [s \in Sides |-> [pending |-> <<>>, state |-> "open"]]
    /\ tp_sent = [s \in Sides |-> <<>>]
    /\ tp_dir = [s \in Sides |-> [pc |-> "read", buf |-> <<>>, read |-> <<>>, written |-> <<>>]]
    /\ tp_shut = {}
    /\ tp_state = "running"

\* a peer sends one byte
PeerSend(s) ==
    /\ tp_state = "running"
    /\ tp_peer[s].state = "open"
    /\ Len(tp_sent[s]) < MaxBytes
    /\ \E b \in TcpBytes :
        /\ tp_peer' = [tp_peer EXCEPT ![s].pending = Append(@, b)]
        /\ tp_sent' = [tp_sent EXCEPT ![s] = Append(@, b)]
    /\ UNCHANGED <<tp_dir, tp_shut, tp_state>>
    /\ UNCHANGED <<coreVars, cacheVars, logVars, streamVars, hashVars, bootVars>>

\* a peer closes its sending side: the proxy reads end of stream after the
\* bytes that are under way
PeerClose(s) ==
    /\ tp_state = "running"
    /\ tp_peer[s].state = "open"
    /\ tp_peer' = [tp_peer EXCEPT ![s].state = "closed"]
    /\ UNCHANGED <<tp_sent, tp_dir, tp_shut, tp_state>>
    /\ UNCHANGED <<coreVars, cacheVars, logVars, streamVars, hashVars, bootVars>>

\* a peer resets the connection: the bytes under way are lost and reads
\* from it and writes to it fail
PeerReset(s) ==
    /\ tp_state = "running"
    /\ tp_peer[s].state # "reset"
    /\ tp_peer' = [tp_peer EXCEPT ![s] = [pending |-> <<>>, state |-> "reset"]]
    /\ UNCHANGED <<tp_sent, tp_dir, tp_shut, tp_state>>
    /\ UNCHANGED <<coreVars, cacheVars, logVars, streamVars, hashVars, bootVars>>

\* reader.read(&mut buf) returns n > 0 bytes
TcpRead(s) ==
    /\ tp_state = "running"
    /\ tp_dir[s].pc = "read"
    /\ tp_peer[s].state # "reset"
    /\ \E n \in 1..Min(Len(tp_peer[s].pending), BUF_SIZE) :
        /\ tp_dir' = [tp_dir EXCEPT ![s] =
                [pc |-> "write", buf |-> SubSeq(tp_peer[s].pending, 1, n),
                 read |-> @.read \o SubSeq(tp_peer[s].pending, 1, n),
                 written |-> @.written]]
        /\ tp_peer' = [tp_peer EXCEPT ![s].pending = SubSeq(@, n + 1, Len(@))]
    /\ UNCHANGED <<tp_sent, tp_shut, tp_state>>
    /\ UNCHANGED <<coreVars, cacheVars, logVars, streamVars, hashVars, bootVars>>

\* reader.read(&mut buf) returns 0: the loop breaks
TcpReadEof(s) ==
    /\ tp_state = "running"
    /\ tp_dir[s].pc = "read"
    /\ tp_peer[s] = [pending |-> <<>>, state |-> "closed"]
    /\ tp_dir' = [tp_dir EXCEPT ![s].pc = "shutdown"]
    /\ UNCHANGED <<tp_peer, tp_sent, tp_shut, tp_state>>
    /\ UNCHANGED <<coreVars, cacheVars, logVars, streamVars, hashVars, bootVars>>

\* reader.read(&mut buf) returns an error: the loop ends with it
TcpReadFails(s) ==
    /\ tp_state = "running"
    /\ tp_dir[s].pc = "read"
    /\ tp_peer[s].state = "reset"
    /\ tp_dir' = [tp_dir EXCEPT ![s].pc = "failed"]
    /\ tp_state' = after_poll(tp_dir')
    /\ UNCHANGED <<tp_peer, tp_sent, tp_shut>>
    /\ UNCHANGED <<coreVars, cacheVars, logVars, streamVars, hashVars, bootVars>>

\* writer.write_all(&buf[..n]) completes
TcpWrite(s) ==
    /\ tp_state = "running"
    /\ tp_dir[s].pc = "write"
    /\ tp_peer[other(s)].state # "reset"
    /\ tp_dir' = [tp_dir EXCEPT ![s] =
            [pc |-> "read", buf |-> <<>>, read |-> @.read,
             written |-> @.written \o @.buf]]
    /\ UNCHANGED <<tp_peer, tp_sent, tp_shut, tp_state>>
    /\ UNCHANGED <<coreVars, cacheVars, logVars, streamVars, hashVars, bootVars>>

\* writer.write_all(&buf[..n]) returns an error after some of the bytes:
\* the loop ends with it
TcpWriteFails(s) ==
    /\ tp_state = "running"
    /\ tp_dir[s].pc = "write"
    /\ tp_peer[other(s)].state = "reset"
    /\ \E k \in 0..(Len(tp_dir[s].buf) - 1) :
        tp_dir' = [tp_dir EXCEPT ![s] =
            [pc |-> "failed", buf |-> <<>>, read |-> @.read,
             written |-> @.written \o SubSeq(@.buf, 1, k)]]
    /\ tp_state' = after_poll(tp_dir')
    /\ UNCHANGED <<tp_peer, tp_sent, tp_shut>>
    /\ UNCHANGED <<coreVars, cacheVars, logVars, streamVars, hashVars, bootVars>>

\* writer.shutdown() completes: the write half of the other socket is shut
\* and the loop ends
TcpShutdown(s) ==
    /\ tp_state = "running"
    /\ tp_dir[s].pc = "shutdown"
    /\ tp_peer[other(s)].state # "reset"
    /\ tp_shut' = tp_shut \cup {other(s)}
    /\ tp_dir' = [tp_dir EXCEPT ![s].pc = "done"]
    /\ tp_state' = after_poll(tp_dir')
    /\ UNCHANGED <<tp_peer, tp_sent>>
    /\ UNCHANGED <<coreVars, cacheVars, logVars, streamVars, hashVars, bootVars>>

\* writer.shutdown() returns an error: the loop ends with it
TcpShutdownFails(s) ==
    /\ tp_state = "running"
    /\ tp_dir[s].pc = "shutdown"
    /\ tp_peer[other(s)].state = "reset"
    /\ tp_dir' = [tp_dir EXCEPT ![s].pc = "failed"]
    /\ tp_state' = after_poll(tp_dir')
    /\ UNCHANGED <<tp_peer, tp_sent, tp_shut>>
    /\ UNCHANGED <<coreVars, cacheVars, logVars, streamVars, hashVars, bootVars>>

\* one step of the copy loop that reads from s
CopyStep(s) ==
    \/ TcpRead(s)
    \/ TcpReadEof(s)
    \/ TcpReadFails(s)
    \/ TcpWrite(s)
    \/ TcpWriteFails(s)
    \/ TcpShutdown(s)
    \/ TcpShutdownFails(s)

NextTcp ==
    \/ \E s \in Sides : PeerSend(s)
    \/ \E s \in Sides : PeerClose(s)
    \/ \E s \in Sides : PeerReset(s)
    \/ \E s \in Sides : TcpRead(s)
    \/ \E s \in Sides : TcpReadEof(s)
    \/ \E s \in Sides : TcpReadFails(s)
    \/ \E s \in Sides : TcpWrite(s)
    \/ \E s \in Sides : TcpWriteFails(s)
    \/ \E s \in Sides : TcpShutdown(s)
    \/ \E s \in Sides : TcpShutdownFails(s)

SpecTcp == InitTcp /\ [][NextTcp]_vars

\* the task of the connection is polled whenever one of its sockets is
\* ready, and a write to a peer that has not failed completes
SpecTcpLive ==
    /\ SpecTcp
    /\ WF_vars(CopyStep("client")) /\ WF_vars(CopyStep("upstream"))

(***************************************************************************)
(* upstream.rs: create_upstream_selector on its own.  The specification    *)
(* SpecSelector takes every list of up to MaxUpstreams upstreams over two  *)
(* addresses, a name that resolves to the first of them and a name that    *)
(* does not resolve, with weights 1 and 2, under every method string.      *)
(***************************************************************************)
MaxUpstreams == 3

SelectorServers == {"10.0.0.9", "10.0.0.2", "backend.local", "nohost.invalid"}

SelectorUpstreams ==
    {Upstream(server, 8080, weight) : server \in SelectorServers, weight \in {1, 2}}

BalanceMethods ==
    {"ip_hash", "random", "round_robin", "weighted", "least_connections", "bogus", ""}

InitSelector ==
    /\ LaterIdle
    /\ fn_in \in [upstreams : SeqsUpTo(SelectorUpstreams, MaxUpstreams),
                  method : BalanceMethods]
    /\ fn_out = None
    /\ rt_hosts = <<>> /\ rt_req = None /\ rt_out = None
    /\ EvaluatorsIdle
    /\ ProxyIdle
    /\ StaticIdle

\* create_upstream_selector(&upstreams, method)
CreateSelector ==
    /\ fn_out = None
    /\ fn_out' = Some([selector |-> create_upstream_selector(fn_in.upstreams, fn_in.method)])
    /\ UNCHANGED fn_in

NextSelector ==
    CreateSelector /\ UNCHANGED <<accVars, dispVars, reloadVars, reqVars, staticVars, routerVars, laterVars>>

SpecSelector == InitSelector /\ [][NextSelector]_vars

(***************************************************************************)
(* Dispatches one after another under one snapshot: the specification      *)
(* SpecIpHash logs up to MaxDispatches calls of resolve_request on a host  *)
(* with an ip_hash location, a round-robin location and a random one.  The *)
(* round-robin counters and the random draws are free at every call.       *)
(***************************************************************************)
MaxDispatches == 3

ThreeUpstreams ==
    <<Upstream("10.0.0.1", 8080, 1), Upstream("10.0.0.2", 8080, 1),
      Upstream("10.0.0.3", 8080, 1)>>

HostHash ==
    [HostDefaults EXCEPT !.id = 6, !.domains = <<"hash.com">>,
        !.locations = <<
            [LocationDefaults EXCEPT !.path = "/h", !.upstreams = ThreeUpstreams,
                !.balance_method = "ip_hash"],
            [LocationDefaults EXCEPT !.path = "/x", !.upstreams = ThreeUpstreams,
                !.balance_method = "random"],
            ProxyLocation("/", None) >>]

HashSnapshot ==
    SharedState_build([global |-> GlobalDefault, hosts |-> <<HostHash>>,
                       access_lists |-> EmptyMap])

HashRequests ==
    [host_header : {Some("hash.com")}, path : {"/h", "/h/a", "/x", "/"},
     server_port : {Some(80)},
     client_ip : {None, Some(V4(10, 0, 0, 1)), Some(V4(10, 0, 0, 2)), Some(V6Loopback)},
     auth_header : {None}]

InitIpHash ==
    /\ EvaluatorsIdle
    /\ ProxyIdle
    /\ StaticIdle
    /\ PureIdle
    /\ CacheIdle
    /\ LogIdle
    /\ StreamIdle
    /\ TcpIdle
    /\ BootIdle
    /\ ih_log = <<>>

\* one more call of resolve_request
Dispatch ==
    /\ Len(ih_log) < MaxDispatches
    /\ \E req \in HashRequests, draw \in Draws :
        ih_log' = Append(ih_log,
            [req |-> req, action |-> resolve_request(HashSnapshot, req, draw)])
    /\ UNCHANGED <<coreVars, cacheVars, logVars, streamVars, tcpVars, bootVars>>

NextIpHash == Dispatch

SpecIpHash == InitIpHash /\ [][NextIpHash]_vars

(***************************************************************************)
(* main() from the spawn of the reload thread on: the listeners and the    *)
(* stream proxies it starts, the reload thread from its first statement,   *)
(* and requests accepted on the listeners.  The specification SpecBoot     *)
(* starts from every directory, rewrites it, delivers SIGHUPs, accepts     *)
(* stream connections and dispatches requests.                             *)
(***************************************************************************)
MaxAccepts == 2

\* SslCertManager::has_certs
has_certs(certs) == certs # EmptyMap

\* variant that binds the HTTPS listener whether or not there are
\* certificates (a mutant)
bound_listeners_always_https(cfg) ==
    [cfg |-> cfg,
     http |-> Some(ConfigPool[cfg].global.listen.http),
     https |-> Some(ConfigPool[cfg].global.listen.https),
     admin |-> Some(ConfigPool[cfg].global.listen.admin)]

\* the listener setup of main(): the HTTP and admin ports of the startup
\* configuration, and its HTTPS port when the startup snapshot has
\* certificates
bound_listeners(cfg) ==
    [cfg |-> cfg,
     http |-> Some(ConfigPool[cfg].global.listen.http),
     https |-> IF has_certs(Snapshots[cfg].ssl_manager)
               THEN Some(ConfigPool[cfg].global.listen.https) ELSE None,
     admin |-> Some(ConfigPool[cfg].global.listen.admin)]

\* streams::start_stream_proxies: one task per stream port, each with its
\* own copy of the configuration and an index of 0
start_stream_proxies(stream_ports) ==
    [i \in DOMAIN stream_ports |-> [config |-> stream_ports[i], upstream_index |-> 0]]

\* the requests sent to the listeners: a host that forces HTTPS, a plain
\* host and an unknown one
BootRequests ==
    [host_header : {Some("Secure.COM:8443"), Some("acl.com"), Some("unknown.com")},
     path : {"/", "/p"}, client_ip : {Some(V4(10, 0, 0, 1))}, auth_header : {None}]

InitBoot ==
    /\ CacheIdle
    /\ LogIdle
    /\ StreamIdle
    /\ TcpIdle
    /\ HashIdle
    /\ EvaluatorsIdle
    /\ StaticIdle
    /\ PureIdle
    /\ disk \in Disks
    /\ published = [cfg |-> startup_config(disk), gen |-> 0]
    /\ listeners = { ConfigPool[startup_config(disk)].global.listen.http,
                     ConfigPool[startup_config(disk)].global.listen.admin }
    /\ sighup = FALSE
    /\ sent = 0
    /\ reload_pc = "spawned"
    /\ reload_log = <<>>
    /\ r_pc = "idle"
    /\ r_req = None
    /\ ctx = NoCtx
    /\ r_act = NoRequestAction
    /\ r_resp = None
    /\ log_sink = <<>>
    /\ served = 0
    /\ proc = "running"
    /\ boot = bound_listeners(startup_config(disk))
    /\ stream_tasks = start_stream_proxies(
            stream_port_configs(ConfigPool[startup_config(disk)].hosts, 1))

\* the reload thread starts: libc::signal(SIGHUP, sighup_handler)
RegisterHandler ==
    /\ proc = "running"
    /\ reload_pc = "spawned"
    /\ reload_pc' = "sleep"
    /\ UNCHANGED <<disk, published, listeners, sighup, sent, reload_log>>
    /\ UNCHANGED <<accVars, dispVars, reqVars, staticVars, routerVars, fnVars, laterVars>>

\* a SIGHUP arrives before the handler is registered: the default action
\* of the signal ends the process
SighupUnhandled ==
    /\ proc = "running"
    /\ reload_pc = "spawned"
    /\ sent < MaxSighups
    /\ sent' = sent + 1
    /\ proc' = "killed"
    /\ UNCHANGED <<boot, stream_tasks>>
    /\ UNCHANGED <<disk, published, listeners, sighup, reload_pc, reload_log>>
    /\ UNCHANGED <<accVars, dispVars, reqVars, staticVars, routerVars, fnVars>>
    /\ UNCHANGED <<cacheVars, logVars, streamVars, tcpVars, hashVars>>

\* a SIGHUP arrives with the handler registered
SighupHandled == proc = "running" /\ reload_pc # "spawned" /\ Sighup

BootEdit == proc = "running" /\ EditConfigs

BootPoll == proc = "running" /\ ReloadPoll

BootLoad == proc = "running" /\ ReloadLoad

\* a request is accepted on one of the bound listeners, whose port is its
\* server port, and resolve_request runs on the published snapshot
DispatchOn(port) ==
    /\ proc = "running"
    /\ \E req \in BootRequests, draw \in Draws :
        /\ d_req' = WithPort(req, port)
        /\ d_out' = Some(resolve_trace(Loaded(published), d_req', draw))
    /\ d_cfg' = published.cfg
    /\ UNCHANGED <<accVars, reloadVars, reqVars, staticVars, routerVars, fnVars, laterVars>>

\* the stream proxy of a port accepts a connection and advances its index
StreamTaskAccept(i) ==
    /\ proc = "running"
    /\ stream_tasks[i].upstream_index < MaxAccepts
    /\ stream_tasks[i].config.upstreams # <<>>
    /\ stream_tasks' = [stream_tasks EXCEPT ![i].upstream_index = @ + 1]
    /\ UNCHANGED <<proc, boot>>
    /\ UNCHANGED <<coreVars, cacheVars, logVars, streamVars, tcpVars, hashVars>>

NextBoot ==
    \/ RegisterHandler
    \/ SighupUnhandled
    \/ SighupHandled
    \/ BootEdit
    \/ BootPoll
    \/ BootLoad
    \/ \E port \in {Unwrap(boot.http), Unwrap(boot.admin)} : DispatchOn(port)
    \/ \E i \in DOMAIN stream_tasks : StreamTaskAccept(i)

SpecBoot == InitBoot /\ [][NextBoot]_vars

\* the reload thread runs from its first statement on: it registers the
\* handler, polls the flag every second, and a load returns
SpecBootLive ==
    /\ SpecBoot
    /\ WF_vars(RegisterHandler) /\ WF_vars(BootPoll) /\ WF_vars(BootLoad)

(***************************************************************************)
(* The AcmeChallenge arm of request_filter on its own: the specification   *)
(* SpecAcme draws the regular files that exist, those of them the process  *)
(* can read and a request path, and answers the request.  A path is the    *)
(* sequence of its components below "/"; there are no symlinks.            *)
(***************************************************************************)
ACME_CHALLENGE_DIR == "/data/acme-challenge"

AcmeDirs == { <<>>, <<"data">>, <<"data", "acme-challenge">>, <<"etc">> }

AcmeFilePool ==
    { <<"data", "acme-challenge", "tok">>, <<"data", "secret.key">>,
      <<"etc", "passwd">> }

AcmePaths ==
    { AcmePrefix \o t : t \in
        { "tok", "missing", "./tok", "../acme-challenge/tok", "../secret.key",
          "../../etc/passwd", "/etc/passwd", "..", "tok/../../../etc/passwd" } }

\* the bytes of a regular file
file_content(file) == <<"content of", file>>

\* PathBuf::join: an absolute argument replaces the path, a relative one is
\* pushed component by component
PathBuf_join(base, s) ==
    IF starts_with(s, "/") THEN PathBuf_from(s) ELSE base \o PathBuf_from(s)

\* path resolution of the operating system: "." stays, ".." steps up, a
\* name is looked up in the directory reached so far; Some(file) when the
\* path ends at a regular file that exists, None otherwise
RECURSIVE lookup_from(_, _, _, _)
lookup_from(files, comps, i, cur) ==
    IF cur \notin AcmeDirs THEN None
    ELSE IF i > Len(comps) THEN None
    ELSE IF comps[i] = "." THEN lookup_from(files, comps, i + 1, cur)
    ELSE IF comps[i] = ".." THEN
        lookup_from(files, comps, i + 1,
                    IF cur = <<>> THEN cur ELSE SubSeq(cur, 1, Len(cur) - 1))
    ELSE LET next == Append(cur, comps[i])
         IN  IF next \in files /\ i = Len(comps) THEN Some(next)
             ELSE lookup_from(files, comps, i + 1, next)

\* the regular file challenge_path.is_file() finds
challenge_file(files, token) ==
    lookup_from(files, PathBuf_join(PathBuf_from(ACME_CHALLENGE_DIR), token), 1, <<>>)

\* the AcmeChallenge arm: 200 with the bytes of the file when the joined
\* path is a regular file that can be read, 404 without body otherwise
acme_challenge_response(files, readable, token) ==
    LET file == challenge_file(files, token)
    IN  IF IsSome(file) /\ Unwrap(file) \in readable
        THEN [status |-> 200, content_type |-> Some("text/plain"),
              body |-> Some(file_content(Unwrap(file))), file |-> file]
        ELSE [status |-> 404, content_type |-> None, body |-> None, file |-> None]

InitAcme ==
    /\ LaterIdle
    /\ fn_in \in [files : SUBSET AcmeFilePool, readable : SUBSET AcmeFilePool,
                  path : AcmePaths]
    /\ fn_in.readable \subseteq fn_in.files
    /\ fn_out = None
    /\ rt_hosts = <<>> /\ rt_req = None /\ rt_out = None
    /\ EvaluatorsIdle
    /\ ProxyIdle
    /\ StaticIdle

\* resolve_request finds the token and request_filter answers
ServeChallenge ==
    /\ fn_out = None
    /\ IsSome(acme_token(fn_in.path))
    /\ fn_out' = Some(acme_challenge_response(fn_in.files, fn_in.readable,
                                              Unwrap(acme_token(fn_in.path))))
    /\ UNCHANGED fn_in

NextAcme ==
    ServeChallenge /\ UNCHANGED <<accVars, dispVars, reloadVars, reqVars, staticVars, routerVars, laterVars>>

SpecAcme == InitAcme /\ [][NextAcme]_vars

(***************************************************************************)
(* Locations that serve files but name none: the specification SpecNoDir   *)
(* dispatches requests on a snapshot whose hosts have static and file      *)
(* locations without static_dir, next to complete ones, behind the access  *)
(* lists and behind force_https, and writes the response.                  *)
(***************************************************************************)
NoDirLocation(path, type, acl) ==
    [LocationDefaults EXCEPT !.path = path, !.location_type = Some(type),
        !.access_list_id = acl]

HostNoDir ==
    [HostDefaults EXCEPT !.id = 7, !.domains = <<"nodir.com">>,
        !.group_id = Some(3),
        !.locations = <<
            NoDirLocation("/s", "static", None),
            NoDirLocation("/f", "file", None),
            NoDirLocation("/as", "static", Some(2)),
            NoDirLocation("/df", "file", Some(1)),
            [NoDirLocation("/ok", "static", None) EXCEPT !.static_dir = Some("/var/www")],
            [NoDirLocation("/okf", "file", None) EXCEPT
                !.static_dir = Some("/var/www/f.html")],
            ProxyLocation("/", None) >>]

HostNoDirSecure ==
    [HostDefaults EXCEPT !.id = 8, !.domains = <<"secure-nodir.com">>,
        !.ssl = Some([ssl_type |-> "letsencrypt", force_https |-> TRUE,
                      cert_path |-> None, key_path |-> None]),
        !.locations = <<NoDirLocation("/", "static", None)>>]

NoDirSnapshot ==
    SharedState_build([global |-> GlobalDefault,
                       hosts |-> <<HostNoDir, HostNoDirSecure>>,
                       access_lists |-> AccessListMap])

NoDirRequests ==
    [host_header : {Some("nodir.com"), Some("secure-nodir.com")},
     path : {"/s/a.css", "/f", "/as/a.css", "/df", "/ok/a.css", "/okf", "/x",
             "/.well-known/acme-challenge/tok"},
     server_port : {Some(80), Some(443), Some(81)},
     client_ip : {Some(V4(10, 0, 0, 1))},
     auth_header : {None, Some("Basic YWRtaW46c2VjcmV0")}]

InitNoDir ==
    /\ LaterIdle
    /\ fn_in \in NoDirRequests
    /\ fn_out = None
    /\ rt_hosts = <<>> /\ rt_req = None /\ rt_out = None
    /\ EvaluatorsIdle
    /\ ProxyIdle
    /\ StaticIdle

\* the response request_filter writes for the action, none for Proxy
answered(action, found) ==
    [action |-> action,
     response |-> IF action.kind = "Proxy" THEN None
                  ELSE Some(filter_response(action, found))]

\* resolve_request on the snapshot and the response of request_filter; the
\* file an action names is found or not
ResolveNoDir ==
    /\ fn_out = None
    /\ \E draw \in Draws, found \in BOOLEAN :
          /\ reads_file(resolve_request(NoDirSnapshot, fn_in, draw)) \/ found
          /\ fn_out' = Some(answered(resolve_request(NoDirSnapshot, fn_in, draw),
                                     found))
    /\ UNCHANGED fn_in

NextNoDir ==
    ResolveNoDir /\ UNCHANGED <<accVars, dispVars, reloadVars, reqVars, staticVars, routerVars, laterVars>>

SpecNoDir == InitNoDir /\ [][NextNoDir]_vars

(***************************************************************************)
(* What a dispatch is about, said without the dispatcher: the              *)
(* configuration, the port, the ACME path, the route and the access list   *)
(* of the request in d_req.                                                *)
(***************************************************************************)
C_cfg == ConfigPool[d_cfg]
C_Done == IsSome(d_out)
C_action == Unwrap(d_out).action
C_OnAdminPort == d_req.server_port = Some(C_cfg.global.listen.admin)
C_OnHttpPort == d_req.server_port = Some(C_cfg.global.listen.http)
C_Host == IF IsSome(d_req.host_header) THEN Unwrap(d_req.host_header) ELSE ""
C_IsAcme ==
    /\ Len(d_req.path) > Len(AcmePrefix)
    /\ SubSeq(d_req.path, 1, Len(AcmePrefix)) = AcmePrefix
C_AcmeToken == SubSeq(d_req.path, Len(AcmePrefix) + 1, Len(d_req.path))
C_Routers == [i \in DOMAIN ConfigPool |-> Router_build(ConfigPool[i].hosts)]
C_Routed == Router_resolve(C_Routers[d_cfg], C_Host, d_req.path)
C_RoutedHost == Unwrap(C_Routed).host
C_ForcesHttps ==
    /\ IsSome(C_Routed)
    /\ IsSome(C_RoutedHost.ssl)
    /\ Unwrap(C_RoutedHost.ssl).force_https
C_Location == IF IsSome(C_Routed) THEN Unwrap(C_Routed).location ELSE None
C_Acl ==
    IF IsSome(C_Location) /\ IsSome(Unwrap(C_Location).access_list_id)
    THEN MapGet(C_cfg.access_lists, Unwrap(Unwrap(C_Location).access_list_id))
    ELSE None
C_Check == check_access(Unwrap(C_Acl), d_req.client_ip, d_req.auth_header)
C_LocationKinds == {"Redirect", "ServeStatic", "ServeFile", "Proxy", "NoUpstream"}

\* C1: a request whose server port is the snapshot's admin port gets
\* Proxy(admin_upstream) with hsts false, no host id, no group id and no
\* custom headers, whatever its Host header, path, client IP, Authorization
\* header, and whatever the routed host's force_https and access list.
C1_AdminPortProxiesToAdmin ==
    (C_Done /\ C_OnAdminPort) =>
        C_action = Proxy(C_cfg.global.admin_upstream, None, None, FALSE, <<>>)

\* an admin-port request for an ACME challenge path of the force_https host
\* whose access list denies everybody, answered with the admin proxy
C1_Witness ==
    /\ C_Done /\ C_OnAdminPort
    /\ C_IsAcme
    /\ C_ForcesHttps
    /\ IsSome(C_Acl) /\ C_Check = "Denied"
    /\ C_action.kind = "Proxy"

C3_Table(satisfy, has_clients, has_auth, ip_ok, auth_ok) ==
    CASE satisfy = "all" /\ ~ip_ok                        -> "Denied"
      [] satisfy = "all" /\ ip_ok /\ has_auth /\ ~auth_ok -> "AuthRequired"
      [] satisfy = "all" /\ ip_ok /\ ~(has_auth /\ ~auth_ok) -> "Allowed"
      [] satisfy # "all" /\ ~has_clients /\ ~has_auth     -> "Allowed"
      [] satisfy # "all" /\ has_clients /\ ip_ok          -> "Allowed"
      [] satisfy # "all" /\ has_auth /\ auth_ok /\ ~(has_clients /\ ip_ok)
                                                          -> "Allowed"
      [] OTHER -> IF has_auth THEN "AuthRequired" ELSE "Denied"

\* C3: check(access_list, client_ip, auth_header) equals the decision table
\* for every input: satisfy = all gives Denied if not ip_ok, else
\* AuthRequired if the auth list is non-empty and not auth_ok, else Allowed;
\* any other satisfy value gives Allowed if both lists are empty, Allowed if
\* ip_ok with a non-empty client list, Allowed if auth_ok with a non-empty
\* auth list, otherwise AuthRequired when the auth list is non-empty and
\* Denied when it is empty; ip_ok and auth_ok are true on an empty list.
C3_CheckIsDecisionTable ==
    chk_out # None =>
        LET acl == chk_in.access_list
            out == Unwrap(chk_out)
        IN  /\ out.result = C3_Table(acl.satisfy, acl.clients # <<>>,
                                     acl.auth # <<>>, out.ip_ok, out.auth_ok)
            /\ (acl.clients = <<>> => out.ip_ok)
            /\ (acl.auth = <<>> => out.auth_ok)

\* satisfy = all, address allowed, credentials wrong: AuthRequired
C3_Witness ==
    /\ chk_out # None
    /\ chk_in.access_list.satisfy = "all"
    /\ chk_in.access_list.clients # <<>>
    /\ chk_in.access_list.auth # <<>>
    /\ Unwrap(chk_out).ip_ok
    /\ ~Unwrap(chk_out).auth_ok
    /\ Unwrap(chk_out).result = "AuthRequired"

\* the positions of the rules that match the client address
C4_Matching(clients, ip) ==
    { i \in 1..Len(clients) : rule_matches(ip, clients[i]) }

C4_Last(S) == CHOOSE i \in S : \A j \in S : j <= i

AllowAll == Rule(AddrAll, "allow", None)
DenyNet10 == Rule(Net10, "deny", Some([ip |-> V4(10, 0, 0, 0), prefix_len |-> 8]))

\* C4: over a non-empty client-rule list the IP check is decided by the last
\* rule, in list order, that matches the client IP: it passes iff that
\* rule's directive is exactly allow; it fails when no rule matches and when
\* the client IP is absent; [allow all, deny 10.0.0.0/8] denies 10.0.0.1 and
\* the reverse order allows it.
C4_LastMatchingRuleWins ==
    (chk_out # None /\ chk_in.access_list.clients # <<>>) =>
        LET clients == chk_in.access_list.clients
            ip_ok == Unwrap(chk_out).ip_ok
        IN  /\ ~IsSome(chk_in.client_ip) => ~ip_ok
            /\ IsSome(chk_in.client_ip) =>
                 LET M == C4_Matching(clients, Unwrap(chk_in.client_ip))
                 IN  ip_ok = (M # {} /\ clients[C4_Last(M)].directive = "allow")
            /\ (clients = <<AllowAll, DenyNet10>>
                  /\ chk_in.client_ip = Some(V4(10, 0, 0, 1))) => ~ip_ok
            /\ (clients = <<DenyNet10, AllowAll>>
                  /\ chk_in.client_ip = Some(V4(10, 0, 0, 1))) => ip_ok

\* [allow all, deny 10.0.0.0/8] has been evaluated for 10.0.0.1 and denied it
C4_Witness ==
    /\ chk_out # None
    /\ chk_in.access_list.clients = <<AllowAll, DenyNet10>>
    /\ chk_in.client_ip = Some(V4(10, 0, 0, 1))
    /\ ~Unwrap(chk_out).ip_ok

\* C5: a serve_static_file call whose canonical target does not lie under
\* the canonical form of base_dir returns none (no file body and no 304),
\* whatever BASE_DIR_CACHE and FILE_CACHE hold from earlier calls.
C5_TraversalGuardWhateverCaches ==
    (/\ IsSome(st_out)
     /\ IsSome(Unwrap(st_out).target)
     /\ IsSome(Unwrap(st_out).base)
     /\ ~path_starts_with(Unwrap(Unwrap(st_out).target),
                          Unwrap(Unwrap(st_out).base))) =>
        Unwrap(st_out).result = None

\* C6: a request sees one snapshot: once resolve_request has computed the
\* action, the error-pages directory and the logs directory of the request's
\* context are those of the snapshot that computed the action, and so is the
\* directory of the error page fail_to_proxy renders.
C6_RequestSeesOneSnapshot ==
    r_pc \in {"upstream", "responded", "failed"} =>
        /\ ctx.fields.error_pages_dir = Loaded(r_act.snapshot).error_pages_dir
        /\ ctx.fields.logs_dir = Loaded(r_act.snapshot).logs_dir
        /\ (r_pc = "failed" /\ IsSome(r_resp)) =>
              Unwrap(r_resp).error_pages_dir =
                  Some(Loaded(r_act.snapshot).error_pages_dir)

\* C7: a reload whose load fails leaves the published snapshot as it was,
\* logs the failure and returns the reload thread to its loop, where a
\* SIGHUP that is pending or arrives later is picked up and its load runs to
\* the end.
C7_FailedReloadKeepsSnapshot ==
    /\ [][(reload_pc = "load" /\ ~IsSome(AppConfig_load(disk))
             /\ reload_pc' # reload_pc)
           => /\ published' = published
              /\ reload_log' = Append(reload_log, "Failed to reload config")
              /\ reload_pc' = "sleep"]_vars
    /\ (sighup ~> ~sighup)
    /\ (reload_pc = "load" ~> reload_pc = "sleep")

\* a failed reload, which published nothing, followed by a successful one
C7_Witness ==
    /\ reload_log = <<"Failed to reload config",
                      "Configuration reloaded successfully">>
    /\ published.gen = 1

\* C8: a request not on the admin port gets AcmeChallenge(token) exactly
\* when its path is /.well-known/acme-challenge/ followed by a non-empty
\* token, whatever the host (unknown, force_https, behind an access list);
\* with an empty remainder the action is never AcmeChallenge.
C8_AcmeIffPrefixAndToken ==
    (C_Done /\ ~C_OnAdminPort) =>
        /\ C_action.kind = "AcmeChallenge" <=> C_IsAcme
        /\ C_IsAcme => C_action = AcmeChallenge(C_AcmeToken)

\* a challenge request on the HTTP port of the force_https host whose access
\* list denies everybody
C8_Witness ==
    /\ C_Done /\ ~C_OnAdminPort
    /\ C_IsAcme
    /\ C_ForcesHttps /\ C_OnHttpPort
    /\ IsSome(C_Acl) /\ C_Check = "Denied"
    /\ C_action = AcmeChallenge("tok")

\* C9: a non-admin, non-ACME request whose host does not resolve in the
\* router gets ServeDefault, and a request with an empty or missing Host
\* header gets ServeDefault under every configuration.
C9_UnroutedOrEmptyHostServesDefault ==
    (C_Done /\ ~C_OnAdminPort /\ ~C_IsAcme) =>
        /\ ~IsSome(C_Routed) =>
              C_action = ServeDefault(C_cfg.global.default_page,
                                      C_cfg.global.error_pages_dir)
        /\ C_Host = "" => C_action.kind = "ServeDefault"

\* C10: for a non-admin, non-ACME request routed to a host with an ssl block
\* and force_https, the action is ForceHttps("https://" + Host header + path)
\* iff the server port is known and is the HTTP port; the redirect comes
\* before the access check; on any other port, or with no port, the action
\* is the one access control and location dispatch produce.
C10_ForceHttpsIffHttpPort ==
    (C_Done /\ ~C_OnAdminPort /\ ~C_IsAcme /\ C_ForcesHttps) =>
        /\ C_action.kind = "ForceHttps" <=> C_OnHttpPort
        /\ C_OnHttpPort =>
              C_action = ForceHttps("https://" \o C_Host \o d_req.path)
        /\ ~C_OnHttpPort =>
              C_action.kind \in C_LocationKinds \cup {"AccessDenied", "AuthRequired"}

\* the redirect is returned although the location's access list denies
C10_Witness ==
    /\ C_Done /\ ~C_OnAdminPort /\ ~C_IsAcme /\ C_ForcesHttps
    /\ C_OnHttpPort
    /\ IsSome(C_Acl) /\ C_Check = "Denied"
    /\ C_action = ForceHttps("https://Secure.COM:8443/p")

(***************************************************************************)
(* C11: a location naming an access list the snapshot does not have        *)
(***************************************************************************)
\* the matched location names an access list id missing from the snapshot
C11_Dangling ==
    /\ IsSome(C_Location)
    /\ IsSome(Unwrap(C_Location).access_list_id)
    /\ ~IsSome(C_Acl)

\* the configuration with access_list_id removed from every location that
\* names a list the configuration does not have
C11_WithoutDangling(config) ==
    LET fix(loc) ==
            IF IsSome(loc.access_list_id)
                /\ ~IsSome(MapGet(config.access_lists, Unwrap(loc.access_list_id)))
            THEN [loc EXCEPT !.access_list_id = None] ELSE loc
        fixHost(h) ==
            [h EXCEPT !.locations = [j \in DOMAIN h.locations |-> fix(h.locations[j])]]
    IN  [config EXCEPT !.hosts = [i \in DOMAIN config.hosts |-> fixHost(config.hosts[i])]]

C11_Snapshots ==
    [i \in DOMAIN ConfigPool |-> SharedState_build(C11_WithoutDangling(ConfigPool[i]))]

\* C11: when the matched location's access_list_id names no access list of
\* the snapshot, resolve_request evaluates no access check and returns what
\* it returns for the same request when the location has no
\* access_list_id at all: never AccessDenied, never AuthRequired.
C11_MissingAclIsNoAcl ==
    (C_Done /\ C11_Dangling) =>
        /\ Unwrap(d_out).checked = None
        /\ C_action.kind \notin {"AccessDenied", "AuthRequired"}
        /\ \E draw \in Draws :
              C_action = resolve_request(C11_Snapshots[d_cfg], d_req, draw)

\* a request without credentials from a client the lists would refuse,
\* proxied by the location that names the missing list
C11_Witness ==
    /\ C_Done /\ C11_Dangling
    /\ ~C_OnAdminPort /\ ~C_IsAcme
    /\ d_req.auth_header = None /\ d_req.client_ip = None
    /\ C_action.kind = "Proxy"
    /\ C_action.host_id = Some(C_RoutedHost.id)

(***************************************************************************)
(* Claims about the router (checked under SpecRouter)                      *)
(***************************************************************************)
R_Done == IsSome(rt_out)
R_resolved == Unwrap(rt_out).resolved
R_host == Unwrap(R_resolved).host
R_idx == Unwrap(R_resolved).loc_idx

\* the location matches the path under its own match type
R_Matches(loc, path) ==
    IF loc.match_type = "exact" THEN path = loc.path
    ELSE IF loc.match_type = "regex"
    THEN regex_new_ok(loc.path) /\ regex_is_match(loc.path, path)
    ELSE starts_with(path, loc.path)

R_Kind(loc) ==
    IF loc.match_type \in {"exact", "regex"} THEN loc.match_type ELSE "prefix"

\* the positions (from 1) of the locations of the given kind that match
R_Matching(locations, path, kind) ==
    { i \in DOMAIN locations :
        R_Kind(locations[i]) = kind /\ R_Matches(locations[i], path) }

\* the positions specificity order allows as the match
R_MostSpecific(locations, path) ==
    LET exact == R_Matching(locations, path, "exact")
        prefix == R_Matching(locations, path, "prefix")
        regex == R_Matching(locations, path, "regex")
    IN  IF exact # {} THEN exact
        ELSE IF prefix # {}
        THEN { i \in prefix : \A j \in prefix :
                 Len(locations[j].path) <= Len(locations[i].path) }
        ELSE IF regex # {} THEN { i \in regex : \A j \in regex : i <= j }
        ELSE {}

\* C12: whatever the order of the locations in the configuration, resolve
\* returns the exact location if one matches, else the longest matching
\* prefix, else the first matching regex in configuration order, else none.
C12_SpecificityOrder ==
    (R_Done /\ IsSome(R_resolved)) =>
        LET best == R_MostSpecific(R_host.locations, rt_req.path)
        IN  IF best = {} THEN R_idx = None
            ELSE IsSome(R_idx) /\ (Unwrap(R_idx) + 1) \in best

\* the Host header as C13 normalises it: cut at the first ':', then ASCII
\* letters lowercased
RECURSIVE C13_UntilColon(_)
C13_UntilColon(s) ==
    IF s = "" \/ Head(s) = ":" THEN "" ELSE Head(s) \o C13_UntilColon(Tail(s))

RECURSIVE C13_Lower(_)
C13_Lower(s) ==
    IF s = "" THEN ""
    ELSE LET i == Find("ABCDEFGHIJKLMNOPQRSTUVWXYZ", Head(s))
         IN  (IF i = 0 THEN Head(s)
              ELSE Char("abcdefghijklmnopqrstuvwxyz", i)) \o C13_Lower(Tail(s))

C13_NormalForm(host) == C13_Lower(C13_UntilColon(host))

\* C13: resolve(host, path) equals resolve(normal form of host, path), the
\* normal form being the host truncated at its first ':' and lowercased.
C13_ResolveByNormalForm ==
    R_Done =>
        R_resolved = Router_resolve(Router_build(rt_hosts),
                                    C13_NormalForm(rt_req.host), rt_req.path)

\* "Ex.COM:8080" resolved to the host configured as Ex.com
C13_Witness ==
    /\ R_Done /\ IsSome(R_resolved)
    /\ rt_req.host = "Ex.COM:8080"
    /\ C13_NormalForm(rt_req.host) = "ex.com"
    /\ R_host.id = 1 /\ IsSome(R_idx)

R_Lower(domains) == { to_lowercase(domains[i]) : i \in DOMAIN domains }
R_Enabled == { i \in DOMAIN rt_hosts : rt_hosts[i].enabled }
R_Disabled == { i \in DOMAIN rt_hosts : ~rt_hosts[i].enabled }
R_Addrs(host) ==
    { Unwrap(to_socket_addr(host.locations[j].upstreams[k])) :
        j \in DOMAIN host.locations, k \in {1} }

\* C14: a host with enabled = false has no domain key and no compiled
\* location list in the router, no upstream selector, no address-cache
\* entry, no certificate entry and no stream port of its own, and a request
\* is resolved as it is when the disabled hosts are not configured at all.
C14_DisabledHostExcluded ==
    R_Done =>
        LET state == SharedState_build(RouterConfig(rt_hosts))
            ports == stream_port_configs(rt_hosts, 1)
            on == SelectSeq(rt_hosts, LAMBDA h : h.enabled)
        IN  /\ \A d \in DOMAIN state.router.hosts :
                  /\ state.router.hosts[d].enabled
                  /\ \E i \in R_Enabled : d \in R_Lower(rt_hosts[i].domains)
            /\ \A d \in DOMAIN state.ssl_manager :
                  \E i \in R_Enabled : d \in R_Lower(rt_hosts[i].domains)
            /\ \A i \in R_Disabled :
                  /\ rt_hosts[i].id \notin DOMAIN state.router.locations
                  /\ \A k \in DOMAIN state.location_lbs : k[1] # rt_hosts[i].id
                  /\ \A a \in R_Addrs(rt_hosts[i]) : a \notin DOMAIN state.addr_cache
                  /\ \A k \in DOMAIN ports :
                        \A j \in DOMAIN rt_hosts[i].stream_ports :
                            ports[k] # rt_hosts[i].stream_ports[j]
            /\ R_resolved = Router_resolve(Router_build(on), rt_req.host, rt_req.path)
            /\ (IsSome(R_resolved) => R_host.enabled)

\* a request for b.com, a domain of the disabled second host only, while
\* the first host is enabled: not resolved
C14_Witness ==
    /\ R_Done
    /\ Len(rt_hosts) = 2
    /\ rt_hosts[1].enabled /\ ~rt_hosts[2].enabled
    /\ rt_hosts[1].locations # <<>>
    /\ rt_req.host = "b.com:1:2"
    /\ R_resolved = None

\* C15: a regex location that does not compile never matches and the other
\* locations keep matching; the index resolve returns is the position of
\* the matched location in the host's configured list, so the selector
\* registered under (host id, index) is the one built from the matched
\* location's own upstreams.
C15_IndexIsConfiguredPosition ==
    (R_Done /\ IsSome(R_resolved)) =>
        LET locations == R_host.locations
            matching == { i \in DOMAIN locations : R_Matches(locations[i], rt_req.path) }
        IN  /\ IsSome(R_idx) <=> matching # {}
            /\ IsSome(R_idx) =>
                  LET loc == locations[Unwrap(R_idx) + 1]
                  IN  /\ (Unwrap(R_idx) + 1) \in matching
                      /\ Unwrap(R_resolved).location = Some(loc)
                      /\ regex_new_ok(loc.path) \/ loc.match_type # "regex"
                      /\ Unwrap(rt_out).lb =
                            create_upstream_selector(loc.upstreams, loc.balance_method)
                      /\ IsSome(Unwrap(rt_out).lb)
                      /\ Unwrap(Unwrap(rt_out).lb).backends[1].addr =
                            Unwrap(to_socket_addr(loc.upstreams[1]))

\* the regex that does not compile comes first in the list and the request
\* is matched by the location configured after it, at index 1
C15_Witness ==
    /\ R_Done /\ IsSome(R_resolved)
    /\ Len(R_host.locations) >= 2
    /\ R_host.locations[1].path = "("
    /\ R_idx = Some(1)
    /\ Unwrap(Unwrap(rt_out).lb).backends[1].addr =
          Unwrap(to_socket_addr(R_host.locations[2].upstreams[1]))

(***************************************************************************)
(* C16, C17: the proxy and redirect arms of the dispatcher                 *)
(***************************************************************************)
\* the request reaches the match on the location type: not on the admin
\* port, not an ACME challenge, routed to a host, not redirected to HTTPS
\* and let through by the access list of the location, if any
C_Allowed ==
    /\ C_Done /\ ~C_OnAdminPort /\ ~C_IsAcme
    /\ IsSome(C_Routed)
    /\ ~(C_ForcesHttps /\ C_OnHttpPort)
    /\ IsSome(C_Acl) => C_Check = "Allowed"

C_LocationType ==
    IF IsSome(Unwrap(C_Location).location_type)
    THEN Unwrap(Unwrap(C_Location).location_type) ELSE "proxy"

\* the socket addresses of the upstreams of the location that resolve
C16_ResolvableAddrs(loc) ==
    { Unwrap(to_socket_addr(loc.upstreams[k])) :
        k \in { j \in DOMAIN loc.upstreams : IsSome(to_socket_addr(loc.upstreams[j])) } }

C16_NoUpstream ==
    NoUpstream(C_cfg.global.error_pages_dir, Some(C_RoutedHost.id),
               C_RoutedHost.group_id)

C17_RedirectTarget ==
    (C_Allowed /\ IsSome(C_Location) /\ C_LocationType = "redirect") =>
        LET loc == Unwrap(C_Location)
            scheme == IF loc.forward_scheme = None THEN "https"
                      ELSE Unwrap(loc.forward_scheme)
            domain == IF loc.forward_domain = None THEN ""
                      ELSE Unwrap(loc.forward_domain)
            target == IF loc.preserve_path THEN d_req.path
                      ELSE IF loc.forward_path = None THEN "/"
                      ELSE Unwrap(loc.forward_path)
        IN  /\ C_action.kind = "Redirect"
            /\ C_action.status_code =
                  (IF loc.status_code = None THEN 301 ELSE Unwrap(loc.status_code))
            /\ C_action.location = scheme \o "://" \o domain \o target
            /\ (loc.path = "/r" /\ d_req.path = "/r/x") =>
                  C_action = Redirect(301, "https://new.com/r/x")
            /\ loc.path = "/r2" => C_action = Redirect(302, "http://old.com/new")
            /\ loc.path = "/r3" => C_action = Redirect(301, "https:///")

\* the preserve_path redirect behind the access list, with the defaults
C17_Witness ==
    /\ C_Allowed /\ IsSome(C_Location) /\ C_LocationType = "redirect"
    /\ Unwrap(C_Location).preserve_path
    /\ IsSome(C_Acl)
    /\ C_action = Redirect(301, "https://new.com/r/x")

(***************************************************************************)
(* C18: CIDR matching (checked under SpecCidr)                             *)
(***************************************************************************)
\* the bits of an octet, most significant first
C18_OctetBits(x) == [k \in 1..8 |-> (x \div (2 ^ (8 - k))) % 2]

\* the bits of an address, most significant first
RECURSIVE C18_Bits(_)
C18_Bits(o) ==
    IF o = <<>> THEN <<>> ELSE C18_OctetBits(Head(o)) \o C18_Bits(Tail(o))

\* the two sides of a CIDR text, read off the text
C18_Network == SubSeq(fn_in.address, 1, Find(fn_in.address, "/") - 1)
C18_Prefix == SubSeq(fn_in.address, Find(fn_in.address, "/") + 1, Len(fn_in.address))
C18_IsCidrText == fn_in.address # "all" /\ Find(fn_in.address, "/") > 0
C18_NetworkIp == parse_ip(C18_Network)
C18_P == parse_u32(C18_Prefix)

\* C18: matching a client against network/p gives a boolean for every
\* input; it is false when the network or the prefix does not parse, when
\* the two addresses are of different families and when p exceeds the
\* width of the family (32, 128); within a family it is true for p = 0,
\* and otherwise true exactly when the top p bits of the two addresses are
\* equal, hence for p = width exactly when the addresses are equal. The
\* pre-parsed form gives the same answer.
C18_CidrMatch ==
    (IsSome(fn_out) /\ C18_IsCidrText) =>
        LET m == Unwrap(fn_out).text
            width == IF fn_in.ip.v = 4 THEN 32 ELSE 128
        IN  /\ m \in BOOLEAN
            /\ IF ~IsSome(C18_NetworkIp) \/ ~IsSome(C18_P) THEN m = FALSE
               ELSE LET net == Unwrap(C18_NetworkIp)
                        q == Unwrap(C18_P)
                    IN  /\ Unwrap(fn_out).parsed = Some(m)
                        /\ (net.v # fn_in.ip.v) => m = FALSE
                        /\ (net.v = fn_in.ip.v /\ q > width) => m = FALSE
                        /\ (net.v = fn_in.ip.v /\ q = 0) => m = TRUE
                        /\ (net.v = fn_in.ip.v /\ q <= width) =>
                              (m <=> SubSeq(C18_Bits(fn_in.ip.o), 1, q)
                                       = SubSeq(C18_Bits(net.o), 1, q))
                        /\ (net.v = fn_in.ip.v /\ q = width) =>
                              (m <=> fn_in.ip = net)

\* 10.128.0.1 against 10.0.0.0/9: the ninth bit differs, no match
C18_Witness ==
    /\ IsSome(fn_out)
    /\ fn_in.ip = V4(10, 128, 0, 1)
    /\ fn_in.address = "10.0.0.0/9"
    /\ Unwrap(fn_out).text = FALSE
    /\ Unwrap(fn_out).parsed = Some(FALSE)

(***************************************************************************)
(* C19: Basic authentication (checked under SpecAuth)                      *)
(***************************************************************************)
\* the header is "Basic " followed by the standard base64 of user:password
\* for an entry whose user name holds no colon (the text before the first
\* colon of the decoded credentials never holds one)
C19_Presents(header, entry) ==
    /\ ~Contains(entry.username, ":")
    /\ header = Some("Basic " \o Base64Encode(Bytes(entry.username \o ":" \o entry.password)))

C20_Answered ==
    /\ UNCHANGED <<fs_link, fs_files, now>>
    /\ IsSome(st_out') /\ IsSome(Unwrap(st_out').result)

C20_key == Unwrap(Unwrap(st_out').target)
C20_ims == Unwrap(st_out').ims
C20_response == Unwrap(Unwrap(st_out').result)
C20_cached == MapGet(file_cache, C20_key)
C20_Younger ==
    IsSome(C20_cached) /\ now - Unwrap(C20_cached).cached_at < 30
C20_OnDisk ==
    [body |-> fs_files[C20_key].body,
     last_modified |-> http_date(fs_files[C20_key].mtime),
     cached_at |-> now]

\* a request that finds an entry younger than 30 s is answered from the
\* entry: 304 with an empty body when If-Modified-Since equals the cached
\* last-modified string, 200 with the cached bytes otherwise
C20_FromEntry ==
    /\ file_cache' = file_cache
    /\ IF C20_ims = Some(Unwrap(C20_cached).last_modified)
       THEN /\ C20_response.status = 304
            /\ C20_response.body = ""
            /\ C20_response.last_modified = Unwrap(C20_cached).last_modified
       ELSE /\ C20_response.status = 200
            /\ C20_response.body = Unwrap(C20_cached).body
            /\ C20_response.last_modified = Unwrap(C20_cached).last_modified

\* the request is answered 200 with the file as it is on disk and the entry
\* is replaced by what was read
C20_Refreshed ==
    /\ C20_response.status = 200
    /\ C20_response.body = C20_OnDisk.body
    /\ C20_response.last_modified = C20_OnDisk.last_modified
    /\ MapGet(file_cache', C20_key) = Some(C20_OnDisk)

\* C20 as stated: an entry is used only while younger than 30 s, and a
\* request arriving when the entry is 30 s old or older re-reads metadata
\* and body from disk and replaces the entry.
C20_StaleAlwaysRefreshes ==
    [][C20_Answered =>
          IF C20_Younger THEN C20_FromEntry
          ELSE IsSome(C20_cached) => C20_Refreshed]_vars

\* C20 amended: a request that finds an entry younger than 30 s is answered
\* from the entry; a request that finds an entry 30 s old or older, or
\* none, re-reads the metadata from disk and is answered 304 with an empty
\* body, the entry left as it is, when its If-Modified-Since equals the
\* last-modified string of the file on disk, and otherwise reads the body,
\* replaces the entry and is answered 200 with the content on disk; so a
\* 200 whose body differs from the disk comes from an entry younger than
\* 30 s.
C20_TtlBoundsCacheUse ==
    [][C20_Answered =>
          /\ IF C20_Younger THEN C20_FromEntry
             ELSE IF C20_ims = Some(C20_OnDisk.last_modified)
             THEN /\ C20_response.status = 304
                  /\ C20_response.body = ""
                  /\ C20_response.last_modified = C20_OnDisk.last_modified
                  /\ file_cache' = file_cache
             ELSE C20_Refreshed
          /\ (C20_response.status = 200 /\ C20_response.body # C20_OnDisk.body)
                => C20_Younger]_vars

\* an entry found 30 s old, the file rewritten since it was cached: the call
\* answered 200 with the new content and replaced the entry
C20_Witness ==
    /\ IsSome(st_out) /\ IsSome(Unwrap(st_out).result)
    /\ Unwrap(st_out).age = Some(30)
    /\ Unwrap(Unwrap(st_out).result).status = 200
    /\ Unwrap(Unwrap(st_out).result).body = Body(2)
    /\ MapGet(file_cache, Unwrap(Unwrap(st_out).target)) =
          Some([body |-> Body(2),
                last_modified |-> Unwrap(Unwrap(st_out).result).last_modified,
                cached_at |-> now])

(***************************************************************************)
(* C21: the file cache is capped.  Whenever every call of serve_static_file *)
(* and serve_single_file that was started has completed, FILE_CACHE holds   *)
(* at most 1024 entries, whatever the calls were and however they           *)
(* interleaved.                                                             *)
(***************************************************************************)
C21_AllCompleted == \A t \in CacheTasks : fc_task[t].pc = "idle"
C21_CacheCapped ==
    C21_AllCompleted => FILE_CACHE_len(fc_keys, fc_others) <= FILE_CACHE_MAX

(***************************************************************************)
(* C22: parse_cache_duration, after trimming the surrounding whitespace,   *)
(* is n for a plain non-negative integer n that fits 64 bits, n times      *)
(* 1, 60, 3600 or 86400 for an integer n followed by s, m, h or d, and 0   *)
(* for every other input and whenever the product overflows 64 bits; the   *)
(* header Cache-Control: public, max-age=<n> is set exactly when           *)
(* cache_expires is present and that result is above 0.  As the code has   *)
(* it, whitespace between the integer and its suffix is skipped as well.   *)
(* The integer is a run of decimal digits with an optional + before it.    *)
(***************************************************************************)
C22_Digit(s, i) == Find(Digits, Char(s, i)) - 1

\* the value of a digit string, written without leading zeros
C22_Value(s) ==
    LET nz == {i \in 1..Len(s) : Char(s, i) # "0"}
    IN  IF nz = {} THEN "0"
        ELSE SubSeq(s, CHOOSE i \in nz : \A j \in nz : i <= j, Len(s))

\* a <= b on values
C22_LessEq(a, b) ==
    \/ Len(a) < Len(b)
    \/ /\ Len(a) = Len(b)
       /\ \/ a = b
          \/ \E i \in 1..Len(a) :
                /\ SubSeq(a, 1, i - 1) = SubSeq(b, 1, i - 1)
                /\ C22_Digit(a, i) < C22_Digit(b, i)

\* the value of the first i digits of s, modulo m
RECURSIVE C22_Mod(_, _, _)
C22_Mod(s, i, m) ==
    IF i = 0 THEN 0 ELSE (C22_Mod(s, i - 1, m) * 10 + C22_Digit(s, i)) % m

\* p = n * k, for values below 10^27: the two sides agree modulo six primes
\* whose product is above 10^27
C22_IsProduct(p, n, k) ==
    /\ Len(p) <= 27 /\ Len(n) <= 27
    /\ \A m \in {46337, 46327, 46309, 46307, 46301, 46279} :
          C22_Mod(p, Len(p), m) = (C22_Mod(n, Len(n), m) * (k % m)) % m

C22_Multiplier(suffix) ==
    CASE suffix = "s" -> 1 [] suffix = "m" -> 60
      [] suffix = "h" -> 3600 [] suffix = "d" -> 86400 [] OTHER -> 0

\* the largest n with n * k at most 2^64 - 1
C22_Largest(k) ==
    CASE k = 60 -> "307445734561825860"
      [] k = 3600 -> "5124095576030431"
      [] k = 86400 -> "213503982334601"
      [] OTHER -> "18446744073709551615"

C22_IsInteger == fn_in.sign # "-" /\ IsDigits(fn_in.number)

\* the text is an integer alone (times 1), or an integer and one of the
\* suffixes, with whitespace between them only where it is allowed
C22_IsDuration(gap_allowed) ==
    /\ C22_IsInteger
    /\ \/ fn_in.suffix = ""
       \/ /\ C22_Multiplier(fn_in.suffix) > 0
          /\ fn_in.gap = "" \/ gap_allowed

C22_k == IF fn_in.suffix = "" THEN 1 ELSE C22_Multiplier(fn_in.suffix)

\* seconds is what the claim gives for the input
C22_IsResult(seconds, gap_allowed) ==
    IF C22_IsDuration(gap_allowed)
       /\ C22_LessEq(C22_Value(fn_in.number), C22_Largest(C22_k))
    THEN /\ C22_Value(seconds) = seconds
         /\ C22_IsProduct(seconds, C22_Value(fn_in.number), C22_k)
    ELSE seconds = "0"

C22_Holds(gap_allowed) ==
    IsSome(fn_out) =>
        /\ C22_IsResult(Unwrap(fn_out).seconds, gap_allowed)
        /\ Unwrap(fn_out).response.cache_control =
              IF fn_in.present /\ Unwrap(fn_out).seconds # "0"
              THEN Some("public, max-age=" \o Unwrap(fn_out).seconds)
              ELSE None

\* C22 as written: whitespace is trimmed around the text only
C22_DurationAsWritten == C22_Holds(FALSE)

\* C22 with whitespace between the integer and the suffix skipped
C22_DurationGrammar == C22_Holds(TRUE)

\* an integer, a gap and a suffix give a max-age
C22_Witness ==
    /\ IsSome(fn_out)
    /\ fn_in.present /\ fn_in.number = "30" /\ fn_in.gap = " " /\ fn_in.suffix = "d"
    /\ fn_in.sign = ""
    /\ Unwrap(fn_out).seconds = "2592000"
    /\ Unwrap(fn_out).response.cache_control = Some("public, max-age=2592000")

(***************************************************************************)
(* C23: request_filter answers the request itself, and the request never   *)
(* reaches the upstream phase, for every action other than Proxy: 502 for  *)
(* NoUpstream, 403 for AccessDenied, 401 with WWW-Authenticate: Basic      *)
(* realm="Restricted" for AuthRequired, 404 when the static file, the      *)
(* single file or the default page cannot be served.  The request goes on  *)
(* to the upstream phase only for Proxy, with the address of the action    *)
(* stored in ctx, so upstream_peer always finds an address.                *)
(***************************************************************************)
C23_kind == r_act.action.kind
C23_Filtered == C23_kind # "None"
C23_Status == Unwrap(r_resp).status

C23_FilterCompletesOrProxies ==
    /\ (C23_Filtered /\ C23_kind # "Proxy") =>
          /\ r_pc = "responded" /\ IsSome(r_resp)
          /\ ctx.fields.upstream_addr = None
          /\ C23_kind = "NoUpstream" => C23_Status = 502
          /\ C23_kind = "AccessDenied" => C23_Status = 403
          /\ C23_kind = "AuthRequired" =>
                /\ C23_Status = 401
                /\ Unwrap(r_resp).www_authenticate = Some("Basic realm=\"Restricted\"")
          /\ (C23_kind \in {"ServeStatic", "ServeFile", "ServeDefault"} /\ ~r_act.found)
                => C23_Status = 404
    /\ (C23_Filtered /\ C23_kind = "Proxy") =>
          /\ r_pc \in {"upstream", "responded", "failed"}
          /\ ctx.fields.upstream_addr = Some(r_act.action.upstream_addr)
    /\ r_pc \in {"upstream", "failed"} =>
          /\ C23_kind = "Proxy"
          /\ IsSome(ctx.fields.upstream_addr)

\* acl.com/a without credentials: 401 with the header, no upstream phase
C23_Witness ==
    /\ C23_kind = "AuthRequired"
    /\ r_pc = "responded"
    /\ Unwrap(r_resp).www_authenticate = Some("Basic realm=\"Restricted\"")
    /\ ctx.fields.upstream_addr = None

(***************************************************************************)
(* C27: a request whose Host header resolves to a configured host N, and   *)
(* that did not arrive on the admin port, has its access line sent to      *)
(* <logs_dir>/proxy-host-N_access.log whatever its action was, with an     *)
(* error line to proxy-host-N_error.log before it when the request failed; *)
(* proxy_general.log gets the lines of the other requests only.            *)
(***************************************************************************)
C27_snapshot == Loaded(ctx.snapshot)
C27_LoggingStep == r_pc \in {"responded", "failed"} /\ r_pc' = "idle"
C27_OnAdminPort == r_req.server_port = Some(C27_snapshot.config.global.listen.admin)
C27_resolved ==
    IF IsSome(r_req.host_header)
    THEN Router_resolve(C27_snapshot.router, Unwrap(r_req.host_header), r_req.path)
    ELSE None
C27_HostKnown == ~C27_OnAdminPort /\ IsSome(C27_resolved)
C27_HostFile(suffix) ==
    C27_snapshot.logs_dir \o "/proxy-host-"
        \o ToString(Unwrap(C27_resolved).host.id) \o suffix
C27_GeneralFile == C27_snapshot.logs_dir \o "/proxy_general.log"

C27_PerHostLogFiles ==
    [][C27_LoggingStep =>
         log_sink' =
            IF C27_HostKnown
            THEN (IF r_pc = "failed"
                  THEN <<C27_HostFile("_error.log"), C27_HostFile("_access.log")>>
                  ELSE <<C27_HostFile("_access.log")>>)
            ELSE (IF r_pc = "failed"
                  THEN <<C27_GeneralFile, C27_GeneralFile>>
                  ELSE <<C27_GeneralFile>>)]_vars

(***************************************************************************)
(* C24: the error page for a status code is the body of the first file     *)
(* that can be read among <root>/host-<host_id>/<code>.html (with a host   *)
(* id only), <root>/group-<group_id>/<code>.html (with a group id only)    *)
(* and <root>/global/<code>.html, in that order; when none can be read it  *)
(* is a built-in page holding the status code and its reason phrase.  The  *)
(* status of the response is the requested code in every case.             *)
(***************************************************************************)
C24_code == ToString(fn_in.status_code)
C24_Candidates ==
    (IF IsSome(fn_in.host_id)
     THEN <<ErrorPagesDir \o "/host-" \o ToString(Unwrap(fn_in.host_id))
                \o "/" \o C24_code \o ".html">>
     ELSE <<>>)
    \o (IF IsSome(fn_in.group_id)
        THEN <<ErrorPagesDir \o "/group-" \o ToString(Unwrap(fn_in.group_id))
                   \o "/" \o C24_code \o ".html">>
        ELSE <<>>)
    \o <<ErrorPagesDir \o "/global/" \o C24_code \o ".html">>
C24_Readable(path) == path \in DOMAIN fn_in.files /\ fn_in.files[path].kind = "file"
C24_ReadableAt == {i \in 1..Len(C24_Candidates) : C24_Readable(C24_Candidates[i])}
C24_First == CHOOSE i \in C24_ReadableAt : \A j \in C24_ReadableAt : i <= j
C24_Reason ==
    CASE fn_in.status_code = 403 -> "Forbidden"
      [] fn_in.status_code = 404 -> "Not Found"
      [] fn_in.status_code = 500 -> "Internal Server Error"
      [] fn_in.status_code = 502 -> "Bad Gateway"
      [] fn_in.status_code = 503 -> "Service Unavailable"

C24_ErrorPageCascade ==
    IsSome(fn_out) =>
        /\ Unwrap(fn_out).status = fn_in.status_code
        /\ IF C24_ReadableAt # {}
           THEN Unwrap(fn_out).body = fn_in.files[C24_Candidates[C24_First]].body
           ELSE /\ Contains(Unwrap(fn_out).body, C24_code)
                /\ Contains(Unwrap(fn_out).body, C24_Reason)

\* the host file cannot be read, the group file can: the group page answers
C24_Witness ==
    /\ IsSome(fn_out)
    /\ fn_in.host_id = Some(1) /\ fn_in.group_id = Some(7) /\ fn_in.status_code = 404
    /\ fn_in.files[ErrorPagesDir \o "/host-1/404.html"].kind = "unreadable"
    /\ fn_in.files[ErrorPagesDir \o "/group-7/404.html"].kind = "file"
    /\ fn_in.files[ErrorPagesDir \o "/global/404.html"].kind = "file"
    /\ Unwrap(fn_out).body = "group page"
    /\ Unwrap(fn_out).status = 404

(***************************************************************************)
(* C25: when the load of the configuration fails at startup, the process   *)
(* does not begin serving: it binds no listener and takes no request.      *)
(* The snapshot of generation 0 holds the startup defaults exactly when    *)
(* the load of main() failed.                                              *)
(***************************************************************************)
C25_StartupLoadFailed == published = [cfg |-> Len(ConfigPool), gen |-> 0]
C25_FailedStartupServesNothing ==
    C25_StartupLoadFailed => (listeners = {} /\ r_pc = "idle" /\ served = 0)

(***************************************************************************)
(* C26: the outcome of AppConfig::load, file by file.  A malformed         *)
(* global.yaml or access-lists.yaml fails the whole load.  Otherwise the   *)
(* load succeeds: with the built-in defaults when global.yaml is absent,   *)
(* and with exactly the hosts of the well-formed host files, in their      *)
(* order, a malformed host file being skipped and logged and never failing *)
(* the load.  A file is malformed when it does not hold a value: its bytes *)
(* are not UTF-8 or its text does not deserialize.                         *)
(***************************************************************************)
C26_Malformed(file) == file.kind \in {"not_utf8", "not_yaml"}
C26_result == Unwrap(fn_out).result
C26_WellFormedAt == {i \in 1..Len(fn_in.hosts) : fn_in.hosts[i].kind = "ok"}

\* the hosts of the well-formed host files, in the order of the files
RECURSIVE C26_WellFormedHosts(_)
C26_WellFormedHosts(n) ==
    IF n = 0 THEN <<>>
    ELSE C26_WellFormedHosts(n - 1)
         \o (IF n \in C26_WellFormedAt THEN <<fn_in.hosts[n].value>> ELSE <<>>)

C26_LoadOutcomePerFile ==
    IsSome(fn_out) =>
        IF C26_Malformed(fn_in.global) \/ C26_Malformed(fn_in.access_lists)
        THEN C26_result = None
        ELSE /\ IsSome(C26_result)
             /\ fn_in.global.kind = "absent"
                   => Unwrap(C26_result).config.global = StartupDefaults.global
             /\ Unwrap(C26_result).config.hosts = C26_WellFormedHosts(Len(fn_in.hosts))
             /\ \A i \in 1..Len(fn_in.hosts) :
                   C26_Malformed(fn_in.hosts[i])
                       <=> \E k \in 1..Len(Unwrap(C26_result).logged) :
                               Unwrap(C26_result).logged[k] = i

(***************************************************************************)
(* C28: every line the log writer writes is eventually flushed.  Fewer     *)
(* than 64 written lines are unflushed after any step of the writer, none  *)
(* once it has terminated, and a line that is written and not flushed yet  *)
(* is flushed later: by the flush at 64 written entries, by the flush      *)
(* after 500 ms without an entry, or by the flush at the close of the      *)
(* channel.                                                                *)
(***************************************************************************)
C28_EveryLineFlushed ==
    /\ [](lw_unflushed < FLUSH_COUNT)
    /\ [](lw_pc = "terminated" => lw_unflushed = 0 /\ lw_dirty = {})
    /\ (lw_unflushed > 0) ~> (lw_unflushed = 0)

(***************************************************************************)
(* C29: when the open of a log file fails the entry is dropped and the     *)
(* failure is logged once: later entries for the same path neither retry   *)
(* the open nor log the failure again.  The producer is never blocked and  *)
(* the writer goes on with the entries of other paths.                     *)
(***************************************************************************)
C29_FailedOpenLoggedOnce ==
    \A path \in LogPaths : lw_failed_opens[path] <= 1

(***************************************************************************)
(* C30: on a stream port with n >= 1 upstreams the k-th accepted           *)
(* connection, k from 0, is dialed to upstream k mod n in configuration    *)
(* order, whatever became of the dials and connections before it; with     *)
(* n = 0 every accepted connection is dropped without a dial and the       *)
(* listener accepts on; a failed dial drops only its own connection: the   *)
(* other connections and the listener are as they were.                    *)
(***************************************************************************)
C30_upstreams == Unwrap(sp_config).upstreams

C30_n == Len(C30_upstreams)

C30_Address(k) ==
    C30_upstreams[(k % C30_n) + 1].server \o ":"
        \o ToString(C30_upstreams[(k % C30_n) + 1].port)

C30_Targets ==
    \A k \in 0..(Len(sp_conns) - 1) :
        IF C30_n = 0
        THEN sp_conns[k + 1] = Conn(None, "dropped")
        ELSE /\ sp_conns[k + 1].target = Some(C30_Address(k))
             /\ sp_conns[k + 1].state # "dropped"

C30_AcceptsOn ==
    StreamAccept => (sp_pc' = "accept" /\ Len(sp_conns') = Len(sp_conns) + 1)

C30_FailedDialDropsOne ==
    \A i \in DOMAIN sp_conns :
        StreamDialFails(i) =>
            /\ sp_pc' = sp_pc
            /\ \A j \in DOMAIN sp_conns : j # i => sp_conns'[j] = sp_conns[j]
            /\ sp_conns'[i].target = sp_conns[i].target

C30_RoundRobin ==
    /\ [](sp_config # None => C30_Targets)
    /\ [][C30_AcceptsOn /\ C30_FailedDialDropsOne]_vars

\* three connections on a port of two upstreams: the dial of the first
\* failed, the second is still open, and the third went to the first
\* upstream again
C30_Witness ==
    /\ sp_config # None
    /\ C30_n = 2
    /\ Len(sp_conns) >= 3
    /\ sp_conns[1].state = "failed"
    /\ sp_conns[2].state = "open"
    /\ sp_conns[3].target = sp_conns[1].target
    /\ sp_conns[3].target # sp_conns[2].target

(***************************************************************************)
(* C31: in a forwarded connection each copy loop writes to the other end   *)
(* the bytes it read, in order and unchanged; a loop that read end of      *)
(* stream shuts the write half of the other socket, and no write half is   *)
(* shut otherwise; the connection has terminated exactly when one of the   *)
(* loops has completed or failed; and once a peer has closed or failed     *)
(* the connection terminates.                                              *)
(***************************************************************************)
C31_IsPrefix(a, b) == Len(a) <= Len(b) /\ SubSeq(b, 1, Len(a)) = a

C31_InOrder ==
    \A s \in Sides :
        /\ C31_IsPrefix(tp_dir[s].written, tp_dir[s].read)
        /\ C31_IsPrefix(tp_dir[s].read, tp_sent[s])
        /\ tp_dir[s].read = tp_dir[s].written \o tp_dir[s].buf
            \/ tp_dir[s].pc = "failed"

C31_EofShuts ==
    /\ \A s \in Sides : tp_dir[s].pc = "done" => other(s) \in tp_shut
    /\ \A s \in tp_shut : tp_dir[other(s)].pc = "done"
    /\ \A s \in Sides : tp_dir[s].pc \in {"shutdown", "done"} =>
            tp_dir[s].written = tp_sent[s] /\ tp_peer[s].state # "open"

C31_EitherEnds ==
    (tp_state = "terminated") <=> (\E s \in Sides : tp_dir[s].pc \in {"done", "failed"})

C32_selector == Unwrap(fn_out).selector

C32_Resolved ==
    { Unwrap(resolve_server(fn_in.upstreams[i].server)) \o ":"
          \o ToString(fn_in.upstreams[i].port) :
      i \in { j \in DOMAIN fn_in.upstreams : resolve_server(fn_in.upstreams[j].server) # None } }

C32_backends == Unwrap(C32_selector).backends

C32_NoneIffUnresolved == (C32_selector = None) <=> (C32_Resolved = {})

C32_Addresses == { C32_backends[i].addr : i \in DOMAIN C32_backends } = C32_Resolved

C32_OnePerAddress ==
    \A i, j \in DOMAIN C32_backends :
        C32_backends[i].addr = C32_backends[j].addr => i = j

C32_Kind ==
    Unwrap(C32_selector).kind =
        IF fn_in.method = "ip_hash" THEN "Consistent"
        ELSE IF fn_in.method = "random" THEN "Random"
        ELSE "RoundRobin"

C32_SelectorOfDistinctAddresses ==
    fn_out # None =>
        /\ C32_NoneIffUnresolved
        /\ C32_selector # None => C32_Addresses /\ C32_OnePerAddress /\ C32_Kind

(***************************************************************************)
(* C33: under one snapshot any two requests to the same ip_hash location   *)
(* with the same client IP, or both with none, are proxied to the same     *)
(* upstream address, whatever was dispatched before, between and after     *)
(* them.                                                                   *)
(***************************************************************************)
C33_Route(req) == Router_resolve(HashSnapshot.router, Unwrap(req.host_header), req.path)

C33_IsIpHash(req) ==
    /\ IsSome(C33_Route(req))
    /\ IsSome(Unwrap(C33_Route(req)).location)
    /\ Unwrap(Unwrap(C33_Route(req)).location).balance_method = "ip_hash"

C33_SameLocation(a, b) ==
    Unwrap(C33_Route(a)).loc_idx = Unwrap(C33_Route(b)).loc_idx

C34_SignalSetsFlag == sent' > sent => (sighup' /\ proc' = "running")

C34_TakenFlagStartsLoad ==
    /\ (sighup /\ ~sighup') => (reload_pc = "sleep" /\ reload_pc' = "load")
    /\ (reload_pc # "load" /\ reload_pc' = "load") => (sighup /\ ~sighup')

C34_NoTriggerLost ==
    /\ [][C34_SignalSetsFlag /\ C34_TakenFlagStartsLoad]_vars
    /\ sighup ~> ~sighup

(***************************************************************************)
(* C35: in every state reachable through reloads, a request accepted on    *)
(* the admin listener is dispatched as Proxy(admin_upstream), and a        *)
(* request accepted on the public HTTP listener is not, and is redirected  *)
(* to HTTPS when it is for a host that forces HTTPS.  The listeners are    *)
(* those bound at startup (boot); the snapshot is the one the request was  *)
(* dispatched on (d_cfg).                                                  *)
(***************************************************************************)
C35_AdminProxy == Proxy(Snapshots[d_cfg].admin_upstream, None, None, FALSE, <<>>)

C35_OnAdminListener == C_Done /\ d_req.server_port = boot.admin

C35_OnHttpListener == C_Done /\ d_req.server_port = boot.http

C35_ListenersKeepTheirRole ==
    /\ C35_OnAdminListener => C_action = C35_AdminProxy
    /\ C35_OnHttpListener =>
            /\ C_action # C35_AdminProxy
            /\ (~C_IsAcme /\ C_ForcesHttps) => C_action.kind = "ForceHttps"

\* the same with the snapshot's ports equal to the startup ports
C35_PortsUnchanged == ConfigPool[d_cfg].global.listen = ConfigPool[boot.cfg].global.listen

C35_HoldsWhilePortsUnchanged == C35_PortsUnchanged => C35_ListenersKeepTheirRole

(***************************************************************************)
(* C36: a reload changes nothing but the published snapshot.  The bound    *)
(* HTTP, HTTPS and admin listeners, the stream-port listeners and the      *)
(* upstream list of each are those of the startup configuration in every   *)
(* state, whatever has been reloaded since; and a step of the reload       *)
(* thread, successful or failed, leaves the listeners, the stream tasks    *)
(* and their round-robin counters as they were.                            *)
(***************************************************************************)
C36_startup == ConfigPool[boot.cfg]

C36_StartupStreamPorts ==
    { sp \in [port : {5432, 6379}, protocol : {"tcp"}, upstreams : {TwoUpstreams},
              balance_method : {"round_robin"}] :
        \E i \in DOMAIN C36_startup.hosts :
            /\ C36_startup.hosts[i].enabled
            /\ \E j \in DOMAIN C36_startup.hosts[i].stream_ports :
                    C36_startup.hosts[i].stream_ports[j] = sp }

C36_AsAtStartup ==
    /\ boot.http = Some(C36_startup.global.listen.http)
    /\ boot.admin = Some(C36_startup.global.listen.admin)
    /\ boot.https \in {None, Some(C36_startup.global.listen.https)}
    /\ IsSome(boot.https) <=> DOMAIN Snapshots[boot.cfg].ssl_manager # {}
    /\ { stream_tasks[i].config : i \in DOMAIN stream_tasks } = C36_StartupStreamPorts
    /\ Len(stream_tasks) = Cardinality(C36_StartupStreamPorts)

C36_ReloadStep ==
    published' # published \/ reload_log' # reload_log \/ reload_pc' # reload_pc

C36_StartupOnly ==
    /\ boot' = boot
    /\ DOMAIN stream_tasks' = DOMAIN stream_tasks
    /\ \A i \in DOMAIN stream_tasks : stream_tasks'[i].config = stream_tasks[i].config
    /\ C36_ReloadStep => stream_tasks' = stream_tasks

C36_ReloadOnlyPublishes == []C36_AsAtStartup /\ [][C36_StartupOnly]_vars

\* a failed and a successful reload have run, the snapshot has other ports
\* and other stream ports than the startup configuration, and a stream
\* proxy has advanced its counter
C36_Witness ==
    /\ published.cfg # boot.cfg
    /\ \E k \in DOMAIN reload_log : reload_log[k] = "Failed to reload config"
    /\ reload_log[Len(reload_log)] = "Configuration reloaded successfully"
    /\ ConfigPool[published.cfg].global.listen # C36_startup.global.listen
    /\ stream_port_configs(ConfigPool[published.cfg].hosts, 1) = <<>>
    /\ \E i \in DOMAIN stream_tasks : stream_tasks[i].upstream_index > 0

(***************************************************************************)
(* C37: for every AcmeChallenge token, with ".." or "/" segments or        *)
(* without, the handler serves only a file inside /data/acme-challenge: a  *)
(* 200 carries the bytes of a file below that directory, and a token that  *)
(* designates a path outside it is answered 404 without body.              *)
(***************************************************************************)
C37_token == Unwrap(acme_token(fn_in.path))

C37_Dir == <<"data", "acme-challenge">>

\* the path the token designates, "." and ".." taken away
RECURSIVE C37_Lexical(_, _, _)
C37_Lexical(comps, i, cur) ==
    IF i > Len(comps) THEN cur
    ELSE IF comps[i] = "." THEN C37_Lexical(comps, i + 1, cur)
    ELSE IF comps[i] = ".." THEN
        C37_Lexical(comps, i + 1,
                    IF cur = <<>> THEN cur ELSE SubSeq(cur, 1, Len(cur) - 1))
    ELSE C37_Lexical(comps, i + 1, Append(cur, comps[i]))

C37_Designated ==
    IF Char(C37_token, 1) = "/" THEN C37_Lexical(PathBuf_from(C37_token), 1, <<>>)
    ELSE C37_Lexical(PathBuf_from(C37_token), 1, C37_Dir)

C37_Inside(path) == Len(path) > Len(C37_Dir) /\ SubSeq(path, 1, Len(C37_Dir)) = C37_Dir

C37_ServesOnlyChallengeFiles ==
    IsSome(fn_out) =>
        /\ Unwrap(fn_out).status \in {200, 404}
        /\ Unwrap(fn_out).status = 200 =>
                \E f \in fn_in.files :
                    /\ C37_Inside(f)
                    /\ Unwrap(fn_out).body = Some(file_content(f))
        /\ ~C37_Inside(C37_Designated) =>
                Unwrap(fn_out).status = 404 /\ Unwrap(fn_out).body = None

\* the same for the tokens that designate a path inside the directory
C37_InsideTokensServed ==
    (IsSome(fn_out) /\ C37_Inside(C37_Designated)) =>
        IF C37_Designated \in fn_in.readable
        THEN Unwrap(fn_out).status = 200
             /\ Unwrap(fn_out).body = Some(file_content(C37_Designated))
        ELSE Unwrap(fn_out).status = 404 /\ Unwrap(fn_out).body = None

(***************************************************************************)
(* C38: once a file has been removed from disk, every later call of        *)
(* serve_static_file or serve_single_file for it returns none, also while  *)
(* the cache holds an entry for its canonical path that is younger than    *)
(* the TTL.  The file a call is for is the one its path leads to with      *)
(* every file in place.                                                    *)
(***************************************************************************)
C38_call == Unwrap(st_out)

C38_AllFiles == [f \in FilePaths |-> [body |-> Body(1), mtime |-> 0, version |-> 1]]

C38_File == canonicalize(C38_call.link, C38_AllFiles, C38_call.path)

C38_ForRemovedFile ==
    /\ IsSome(st_out)
    /\ IsSome(C38_File)
    /\ Unwrap(C38_File) \in FilePaths \ C38_call.present

C38_RemovedFileNotServed == C38_ForRemovedFile => C38_call.result = None

C38_Cached == cache_entry_fresh(C38_call.at, MapGet(C38_call.cache, Unwrap(C38_File)))

\* a single file was asked for after its removal, with a cache entry
\* younger than the TTL
C38_Witness ==
    /\ C38_ForRemovedFile
    /\ C38_call.kind = "serve_single_file"
    /\ C38_Cached
    /\ C38_call.result = None

\* the same through the location
C38_WitnessLocation ==
    /\ C38_ForRemovedFile
    /\ C38_call.kind = "serve_static_file"
    /\ C38_Cached
    /\ C38_call.result = None

(***************************************************************************)
(* C39: a request that is not for the admin port or an ACME challenge,     *)
(* whose matched location is of type static or file without static_dir,    *)
(* and that is neither redirected to HTTPS nor refused by the access       *)
(* list, gets NoUpstream and is answered 502: never ServeStatic,           *)
(* ServeFile or a 404.                                                     *)
(***************************************************************************)
C39_action == Unwrap(fn_out).action

C39_Routed ==
    Router_resolve(NoDirSnapshot.router,
                   IF IsSome(fn_in.host_header) THEN Unwrap(fn_in.host_header) ELSE "",
                   fn_in.path)

C39_location == Unwrap(Unwrap(C39_Routed).location)

C39_NoDirLocation ==
    /\ fn_in.server_port # Some(GlobalDefault.listen.admin)
    /\ ~starts_with(fn_in.path, AcmePrefix)
    /\ IsSome(C39_Routed)
    /\ IsSome(Unwrap(C39_Routed).location)
    /\ C39_location.location_type \in {Some("static"), Some("file")}
    /\ C39_location.static_dir = None

C39_PassedGates == C39_action.kind \notin {"ForceHttps", "AccessDenied", "AuthRequired"}

C39_NoDirIsNoUpstream ==
    (IsSome(fn_out) /\ C39_NoDirLocation /\ C39_PassedGates) =>
        /\ C39_action = NoUpstream(GlobalDefault.error_pages_dir,
                                   Some(Unwrap(C39_Routed).host.id),
                                   Unwrap(C39_Routed).host.group_id)
        /\ Unwrap(fn_out).response =
               Some(serve_error_page(GlobalDefault.error_pages_dir, 502,
                                     Some(Unwrap(C39_Routed).host.id),
                                     Unwrap(C39_Routed).host.group_id))

\* a static location without static_dir behind an access list that the
\* request's credentials satisfy
C39_Witness ==
    /\ IsSome(fn_out)
    /\ C39_NoDirLocation
    /\ C39_location.location_type = Some("static")
    /\ C39_location.access_list_id = Some(2)
    /\ C39_action.kind = "NoUpstream"
    /\ Unwrap(Unwrap(fn_out).response).status = 502

\* a file location without static_dir
C39_WitnessFile ==
    /\ IsSome(fn_out)
    /\ C39_NoDirLocation
    /\ C39_location.location_type = Some("file")
    /\ C39_action.kind = "NoUpstream"

(***************************************************************************)
(* C40: for every result of resolve with a location, the location is one   *)
(* of the returned host's own locations, its matcher matches the request   *)
(* path, and the selector found under (host id, index) is the one built    *)
(* from that location's upstreams; also when two host files carry the      *)
(* same id.                                                                *)
(***************************************************************************)
C40_resolved == Unwrap(Unwrap(rt_out).resolved)

C40_location == Unwrap(C40_resolved.location)

C40_HasLocation ==
    /\ IsSome(rt_out)
    /\ IsSome(Unwrap(rt_out).resolved)
    /\ IsSome(C40_resolved.location)

C40_MatcherMatches ==
    IF C40_location.match_type = "exact" THEN rt_req.path = C40_location.path
    ELSE IF C40_location.match_type = "regex"
    THEN regex_new_ok(C40_location.path)
         /\ regex_is_match(C40_location.path, rt_req.path)
    ELSE starts_with(rt_req.path, C40_location.path)

C40_SameId == \E i, j \in DOMAIN rt_hosts : i # j /\ rt_hosts[i].id = rt_hosts[j].id

C40_Consistent ==
    /\ \E k \in DOMAIN C40_resolved.host.locations :
          /\ C40_resolved.host.locations[k] = C40_location
          /\ C40_resolved.loc_idx = Some(k - 1)
    /\ C40_MatcherMatches
    /\ Unwrap(rt_out).lb =
          create_upstream_selector(C40_location.upstreams, C40_location.balance_method)

C40_LocationAndSelectorOfHost == C40_HasLocation => C40_Consistent

\* the same for host lists without a repeated id
C40_HoldsForUniqueIds == (C40_HasLocation /\ ~C40_SameId) => C40_Consistent
====
